---- MODULE Spec2Model ----
(***************************************************************************)
(* State-machine model of the EmTec Targets catalog ingestion pipeline.    *)
(*                                                                         *)
(* src/scripts/ingest.js holds two ingestion scripts: the table script     *)
(* (lines 1-379, parses product tables, DOM fallback) and the description  *)
(* script (lines 381-763, free-text regex scan plus DOM rows, dedup).      *)
(* src/unnamed/part_003 holds the seed script and the database schema.     *)
(* All three write the same Postgres store (tables sources and targets).   *)
(*                                                                         *)
(* Conventions.  A nullable value is a sequence: <<>> is null (and a key   *)
(* missing from a JS object, which `x || null` treats alike), <<v>> is the *)
(* value v.  Lengths are integers in units of 10^-5 mm (57 mm = 5700000). *)
(* NOW() is the start time of the statement's own transaction; statements  *)
(* are issued one after another over one connection, each in its own       *)
(* transaction, so every statement sees a later NOW() than the one before. *)
(***************************************************************************)
EXTENDS Integers, Sequences, FiniteSets, TLC

VARIABLES
  sources,          \* table sources: set of rows
  targets,          \* table targets: set of rows
  sources_id_seq,   \* last value handed out by sources.id SERIAL
  targets_id_seq,   \* last value handed out by targets.id SERIAL
  now,              \* NOW() of the next statement
  pc,               \* position of the running script
  prog,             \* which script the current process runs
  html,             \* page content returned by fetchSourceHTML
  parsedTargets,    \* `targets` array returned by parseTargetsFromHTML
  idx,              \* position of the for..of loop in that array
  client,           \* "none" | "held" | "released"
  poolEnded,        \* pool.end() has run
  sourceId,         \* id returned by upsertSource
  inserted, updated, errors,   \* loop counters
  result,           \* outcome of the last upsertTarget call of the process
  report,           \* what the script printed at the end of the loop
  exitCode,         \* <<>> while running, <<0>> / <<1>> once the process ended
  started,          \* number of processes started so far
  faults,           \* number of failures injected so far
  run,              \* history: what the current process did
  prev,             \* history: `run` of the process before it
  norm,             \* one call of a field normalizer: function, text, outcome
  api,              \* the last GET /api/targets: handler, request, the two
                    \* statements sent to the pool, response
  ui                \* the catalog page in a browser: its state variables,
                    \* what it shows, the requests in flight

\* the variables of the ingestion and seed processes and of the store
ingestVars == <<sources, targets, sources_id_seq, targets_id_seq, now, pc, prog,
                html, parsedTargets, idx, client, poolEnded, sourceId, inserted,
                updated, errors, result, report, exitCode, started, faults, run,
                prev>>

\* the variables the ingestion and seed processes never touch
restVars == <<norm, api, ui>>

vars == <<ingestVars, restVars>>

dbVars == <<sources, targets, sources_id_seq, targets_id_seq, now>>

----------------------------------------------------------------------------
(* Bounds of the model *)

\* most processes started in one behaviour
MaxRuns == 2
\* most failures the environment injects in one behaviour: a failed fetch,
\* a refused connection, a statement the store rejects
MaxFaults == 2
\* most product entries (pattern matches and rows together) on one page of
\* the single-run specification
MaxEntries == 2

----------------------------------------------------------------------------
(* Values *)

Null == <<>>

\* JS `x || null` on a number-or-missing value: 0 is falsy
NumOrNull(x) == IF x = Null \/ x = <<0>> THEN Null ELSE x

\* JS `x || null` on a string-or-missing value: '' is falsy
StrOrNull(x) == IF x = Null \/ x = <<"">> THEN Null ELSE x

\* JS truthiness of a string-or-null value
Truthy(x) == x # Null /\ x # <<"">>

VENDOR == "Ted Pella"

\* default of the description script (TED_PELLA_SOURCE_URL unset)
SOURCE_URL == "https://www.tedpella.com/cressington_html/Cressington-Targets.aspx"

\* default of the table script (TED_PELLA_SOURCE_URL unset)
SOURCE_URL_tables == "https://www.tedpella.com/example-sputter-targets"

----------------------------------------------------------------------------
(* Page content of the description script.                                 *)
(* A description is the text captured for one product entry, given by what *)
(* the sub-patterns of parseDescription find in it: each field below is    *)
(* the capture of one regular expression, <<>> when it does not match.     *)
(* A captured numeral n is written as the integer 100000 * n.              *)

\* "Gold Target, 99.99% Au (Ø57mm x 0.1mm)"
DescGoldDisc ==
  [text |-> "Gold Target, 99.99% Au (Ø57mm x 0.1mm)",
   beforeTarget |-> <<"Gold">>, percent |-> <<"99.99%">>, ratio |-> Null,
   glyph |-> <<5700000>>, xmm |-> <<10000>>, od |-> Null, id |-> Null,
   backing |-> FALSE, new |-> FALSE, ito |-> FALSE]

\* "Gold Target, 99.99% Au (60mm O.D. / 20mm I.D.)"
DescGoldRing ==
  [text |-> "Gold Target, 99.99% Au (60mm O.D. / 20mm I.D.)",
   beforeTarget |-> <<"Gold">>, percent |-> <<"99.99%">>, ratio |-> Null,
   glyph |-> Null, xmm |-> Null, od |-> <<6000000>>, id |-> <<2000000>>,
   backing |-> FALSE, new |-> FALSE, ito |-> FALSE]

\* "Silver Target Ø0mm x 0mm"
DescSilverZero ==
  [text |-> "Silver Target Ø0mm x 0mm",
   beforeTarget |-> <<"Silver">>, percent |-> Null, ratio |-> Null,
   glyph |-> <<0>>, xmm |-> <<0>>, od |-> Null, id |-> Null,
   backing |-> FALSE, new |-> FALSE, ito |-> FALSE]

\* "ITO Target NEW, 99.9% Au:Pd 60/40 ratio, copper backing plate (Ø54mm x 3.2mm)"
DescItoPlate ==
  [text |-> "ITO Target NEW, 99.9% Au:Pd 60/40 ratio, copper backing plate (Ø54mm x 3.2mm)",
   beforeTarget |-> <<"ITO">>, percent |-> <<"99.9%">>, ratio |-> <<"60/40">>,
   glyph |-> <<5400000>>, xmm |-> <<320000>>, od |-> Null, id |-> Null,
   backing |-> TRUE, new |-> TRUE, ito |-> TRUE]

\* "Target Ø5mm x 1mm": productPattern captures it after two blanks, and
\* /^(.+?)\s*Target/i finds nothing before "Target"
DescNoMaterial ==
  [text |-> "Target Ø5mm x 1mm",
   beforeTarget |-> Null, percent |-> Null, ratio |-> Null,
   glyph |-> <<500000>>, xmm |-> <<100000>>, od |-> Null, id |-> Null,
   backing |-> FALSE, new |-> FALSE, ito |-> FALSE]

\* "Silver Target O.D. 2in I.D. 1in": productPattern accepts the O.D./I.D.
\* marker, the annular patterns want "<number> mm O.D." and find nothing
DescNoDimensions ==
  [text |-> "Silver Target O.D. 2in I.D. 1in",
   beforeTarget |-> <<"Silver">>, percent |-> Null, ratio |-> Null,
   glyph |-> Null, xmm |-> Null, od |-> Null, id |-> Null,
   backing |-> FALSE, new |-> FALSE, ito |-> FALSE]

\* "Gold Target Ø57mm x 0.00001mm"
DescGoldFilm ==
  [text |-> "Gold Target Ø57mm x 0.00001mm",
   beforeTarget |-> <<"Gold">>, percent |-> Null, ratio |-> Null,
   glyph |-> <<5700000>>, xmm |-> <<1>>, od |-> Null, id |-> Null,
   backing |-> FALSE, new |-> FALSE, ito |-> FALSE]

\* one product entry: a product number and its description
Entry(pn, d) == [part_number |-> pn, desc |-> d]

\* a page as the description script sees it: the matches of productPattern
\* in the page text, in order, and the DOM rows that begin with a product
\* number and hold a description, in document order
DescriptionPage(t, r) == [text |-> t, rows |-> r]

\* the pages the description script is run on
DescriptionPages ==
  {DescriptionPage(<<Entry("91700", DescItoPlate)>>, <<>>),
   DescriptionPage(<<Entry("91700", DescSilverZero)>>, <<>>),
   DescriptionPage(<<Entry("91700", DescItoPlate), Entry("93000", DescGoldRing)>>,
                   <<Entry("93000", DescGoldDisc)>>),
   DescriptionPage(<<Entry("91700", DescSilverZero), Entry("91700", DescItoPlate)>>,
                   <<>>),
   DescriptionPage(<<>>, <<Entry("93000", DescGoldDisc)>>),
   DescriptionPage(<<>>, <<>>)}

\* the descriptions of the single-run specification
Descriptions ==
  {DescGoldDisc, DescGoldRing, DescSilverZero, DescItoPlate, DescNoMaterial,
   DescNoDimensions, DescGoldFilm}

\* the descriptions a DOM row can yield: /(\w+(?:\/\w+)?\s+Target[^$]+?)/
\* starts the description with a word, which /^(.+?)\s*Target/i captures
RowDescriptions == {d \in Descriptions : d.beforeTarget # Null}

\* every sequence over S of length at most n
SeqsUpTo(S, n) == UNION {[1..k -> S] : k \in 0..n}

\* every page of at most MaxEntries product entries, each with one of two
\* product numbers and one of the descriptions
AllDescriptionPages ==
  LET entries == {Entry(pn, d) : pn \in {"91700", "93000"}, d \in Descriptions}
      rowEntries == {Entry(pn, d) : pn \in {"91700", "93000"},
                                    d \in RowDescriptions}
  IN UNION {{DescriptionPage(t, r) :
               t \in [1..k -> entries],
               r \in SeqsUpTo(rowEntries, MaxEntries - k)} : k \in 0..MaxEntries}

----------------------------------------------------------------------------
(* The description script: parsing *)

parseDescription(desc) ==
  LET annular == desc.od # Null /\ desc.id # Null
      note1 == IF desc.new THEN <<"New product">> ELSE Null
      note2 == IF desc.ito
               THEN (IF note1 # Null
                     THEN <<"New product; Indium Tin Oxide compound">>
                     ELSE <<"Indium Tin Oxide compound">>)
               ELSE note1
  IN [material |-> desc.beforeTarget,
      purity |-> desc.percent,
      diameter_mm |-> IF annular THEN Null ELSE desc.glyph,
      thickness_mm |-> desc.xmm,
      outer_diameter_mm |-> IF annular THEN desc.od ELSE Null,
      inner_diameter_mm |-> IF annular THEN desc.id ELSE Null,
      target_type |-> IF annular THEN "annular" ELSE "disc",
      alloy_ratio |-> desc.ratio,
      backing_plate |-> IF desc.backing THEN <<"Copper">> ELSE Null,
      notes |-> note2]

\* the object literal { part_number, ...parsed, price_usd, raw_excerpt }
TargetOf(entry) ==
  LET parsed == parseDescription(entry.desc)
  IN [part_number |-> entry.part_number,
      material |-> parsed.material,
      purity |-> parsed.purity,
      diameter_mm |-> parsed.diameter_mm,
      thickness_mm |-> parsed.thickness_mm,
      outer_diameter_mm |-> parsed.outer_diameter_mm,
      inner_diameter_mm |-> parsed.inner_diameter_mm,
      target_type |-> <<parsed.target_type>>,
      alloy_ratio |-> parsed.alloy_ratio,
      backing_plate |-> parsed.backing_plate,
      notes |-> parsed.notes,
      raw_excerpt |-> <<entry.desc.text>>]

\* a text scan that pushes every match, parsed.material or not
RECURSIVE ScanText_keepAll(_)
ScanText_keepAll(text) ==
  IF text = <<>> THEN <<>>
  ELSE <<TargetOf(Head(text))>> \o ScanText_keepAll(Tail(text))

\* while ((match = productPattern.exec(pageText)) !== null) { ... push ... }
RECURSIVE ScanText(_)
ScanText(text) ==
  IF text = <<>> THEN <<>>
  ELSE LET t == TargetOf(Head(text))
       IN (IF Truthy(t.material) THEN <<t>> ELSE <<>>) \o ScanText(Tail(text))

\* $('table tr, .product-row, [class*="product"]').each(...): a row is
\* skipped when allTargets already holds its product number
RECURSIVE ScanRows(_, _)
ScanRows(rows, allTargets) ==
  IF rows = <<>> THEN allTargets
  ELSE LET t == TargetOf(Head(rows))
           found == \E k \in 1..Len(allTargets) :
                      allTargets[k].part_number = t.part_number
       IN ScanRows(Tail(rows),
                   IF ~found /\ Truthy(t.material)
                   THEN Append(allTargets, t) ELSE allTargets)

\* const seen = new Set(); allTargets.filter(t => first time t.part_number)
RECURSIVE Deduplicate(_, _)
Deduplicate(allTargets, seen) ==
  IF allTargets = <<>> THEN <<>>
  ELSE LET t == Head(allTargets)
       IN IF t.part_number \in seen
          THEN Deduplicate(Tail(allTargets), seen)
          ELSE <<t>> \o Deduplicate(Tail(allTargets), seen \cup {t.part_number})

\* the two scans in the other order: the DOM rows first, then the page text
Candidates_rowsFirst(page) == ScanRows(page.rows, <<>>) \o ScanText(page.text)

\* every candidate the two strategies push, before deduplication
Candidates(page) == ScanRows(page.rows, ScanText(page.text))

parseTargetsFromHTML(page) == Deduplicate(Candidates(page), {})

----------------------------------------------------------------------------
(* Page content of the table script.                                       *)
(* A cell is the text of one <td>, given by what the patterns of the field *)
(* parsers find in it: mm is the numeral of /(\d+(?:\.\d+)?)\s*mm/i, um    *)
(* the numeral of /(\d+(?:\.\d+)?)\s*[μu]m/i, num the first numeral of the *)
(* text, percent the whole match of /(\d+(?:\.\d+)?)\s*%/, nN the digit of *)
(* /(\d)N/i; <<>> when the pattern does not match.  The numeral of a       *)
(* part-number cell is left out: column 0 is read as text only.            *)

Cell(txt, mm, um, num, percent, nN) ==
  [text |-> txt, mm |-> mm, um |-> um, num |-> num, percent |-> percent,
   nN |-> nN]

\* $(undefined).text(): the text of a cell the row does not have
NoCell == Cell("", Null, Null, Null, Null, Null)

Cell91700 == Cell("91700", Null, Null, Null, Null, Null)

Cell93000 == Cell("93000", Null, Null, Null, Null, Null)

CellGold == Cell("Gold", Null, Null, Null, Null, Null)

CellPercent == Cell("99.99%", Null, Null, <<9999000>>, <<"99.99%">>, Null)

CellTenthMm == Cell("0.1mm", <<10000>>, Null, <<10000>>, Null, Null)

Cell60mm == Cell("60mm", <<6000000>>, Null, <<6000000>>, Null, Null)

Cell20mm == Cell("20mm", <<2000000>>, Null, <<2000000>>, Null, Null)

CellNA == Cell("N/A", Null, Null, Null, Null, Null)

CellZeroMm == Cell("0mm", <<0>>, Null, <<0>>, Null, Null)

\* a <tr>: whether it holds a <th>, its <td> cells, its text, and the
\* capture of /\b(\d{5})\b/ in that text
Row(th, cells, txt, five) ==
  [th |-> th, cells |-> cells, text |-> txt, five |-> five]

\* <tr><th>Part</th><th>Material</th><th>Purity</th><th>Thickness</th></tr>
RowHeader == Row(TRUE, <<>>, "Part Material Purity Thickness", Null)

\* <tr><td>91700</td><td>Gold</td><td>99.99%</td><td>0.1mm</td></tr>
RowGold ==
  Row(FALSE, <<Cell91700, CellGold, CellPercent, CellTenthMm>>,
      "91700 Gold 99.99% 0.1mm", <<"91700">>)

\* <tr><td>93000</td><td>Gold</td><td>60mm</td><td>20mm</td><td>0.1mm</td></tr>
RowRing ==
  Row(FALSE, <<Cell93000, CellGold, Cell60mm, Cell20mm, CellTenthMm>>,
      "93000 Gold 60mm 20mm 0.1mm", <<"93000">>)

\* <tr><td>91700</td><td>Gold</td></tr>
RowShort ==
  Row(FALSE, <<Cell91700, CellGold>>, "91700 Gold", <<"91700">>)

\* <tr><td>91700</td><td></td><td>99.99%</td><td>0.1mm</td></tr>
RowNoMaterial ==
  Row(FALSE, <<Cell91700, NoCell, CellPercent, CellTenthMm>>,
      "91700 99.99% 0.1mm", <<"91700">>)

\* <tr><td>93000</td><td>Gold</td><td>N/A</td><td>20mm</td><td>0mm</td></tr>
RowRingNoOD ==
  Row(FALSE, <<Cell93000, CellGold, CellNA, Cell20mm, CellZeroMm>>,
      "93000 Gold N/A 20mm 0mm", <<"93000">>)

\* a <table>: heading is the numeral of /(\d+(?:\.\d+)?)\s*mm/i in the
\* nearest preceding h2/h3/h4/strong sibling, annular tells whether the
\* table text includes 'annular', or 'od' and 'id'
Table(heading, annular, rows) ==
  [heading |-> heading, annular |-> annular, rows |-> rows]

\* a page as the table script sees it: its tables in document order, and
\* the other elements matched by '[class*="product"], [class*="item"], .row',
\* each given by the capture of /\b(\d{5})\b/ in its text
TablePage(tables, els) == [tables |-> tables, els |-> els]

Element(txt, five) == [text |-> txt, five |-> five]

\* the pages the table script is run on
TablePages ==
  {TablePage(<<Table(<<6200000>>, FALSE, <<RowHeader, RowGold>>)>>, <<>>),
   TablePage(<<Table(<<6200000>>, FALSE, <<RowGold>>),
               Table(Null, TRUE, <<RowHeader, RowRing>>)>>, <<>>),
   TablePage(<<Table(<<6000000>>, TRUE, <<RowRing>>)>>, <<>>),
   TablePage(<<Table(Null, FALSE, <<RowShort>>)>>,
             <<Element("93000", <<"93000">>)>>),
   TablePage(<<>>, <<Element("Sputter targets", Null)>>)}

\* the rows of the single-run specification
Rows == {RowHeader, RowGold, RowRing, RowShort, RowNoMaterial, RowRingNoOD}

\* every page of at most one table of at most MaxEntries rows, the table
\* with or without a diameter heading and with or without annular text,
\* and at most one other element
AllTablePages ==
  LET tables == {Table(h, a, r) : h \in {Null, <<6000000>>}, a \in BOOLEAN,
                                  r \in SeqsUpTo(Rows, MaxEntries)}
      els == {Element("93000", <<"93000">>), Element("Sputter targets", Null)}
  IN {TablePage(t, e) : t \in SeqsUpTo(tables, 1), e \in SeqsUpTo(els, 1)}

----------------------------------------------------------------------------
(* The table script: parsing *)

\* parseFloat(x) * 25.4
Inches(n) == 25 * n + (2 * n) \div 5

\* The inch pattern /(\d+(?:\.\d+)?)\s*["″]?(?:\s*inch)?/i makes the quote
\* and the word optional, so it matches the first numeral of any text.
parseDiameter(cell) ==
  IF cell.text = "" THEN Null
  ELSE IF cell.mm # Null THEN cell.mm
  ELSE IF cell.num # Null THEN <<Inches(cell.num[1])>>
  ELSE Null

parseThickness(cell) ==
  IF cell.text = "" THEN Null
  ELSE IF cell.mm # Null THEN cell.mm
  ELSE IF cell.um # Null THEN <<cell.um[1] \div 1000>>
  ELSE IF cell.num # Null THEN cell.num
  ELSE Null

\* '99.' + '9'.repeat(nines - 2) + '%'
Nines(k) ==
  CASE k = 2 -> "99.%"   [] k = 3 -> "99.9%"     [] k = 4 -> "99.99%"
    [] k = 5 -> "99.999%" [] k = 6 -> "99.9999%" [] k = 7 -> "99.99999%"
    [] k = 8 -> "99.999999%" [] k = 9 -> "99.9999999%"

\* returns [threw, value]: String.prototype.repeat throws a RangeError on a
\* negative count
parsePurity(cell) ==
  IF cell.text = "" THEN [threw |-> FALSE, value |-> Null]
  ELSE IF cell.percent # Null THEN [threw |-> FALSE, value |-> cell.percent]
  ELSE IF cell.nN # Null
       THEN (IF cell.nN[1] < 2 THEN [threw |-> TRUE, value |-> Null]
             ELSE [threw |-> FALSE, value |-> <<Nines(cell.nN[1])>>])
  ELSE [threw |-> FALSE, value |-> Null]

\* '2"'
CellTwoInch == Cell("2\"", Null, Null, <<200000>>, Null, Null)

\* "2.4 inch"
CellInchWord == Cell("2.4 inch", Null, Null, <<240000>>, Null, Null)

\* '2" (50.8mm)'
CellInchAndMm ==
  Cell("2\" (50.8mm)", <<5080000>>, Null, <<200000>>, Null, Null)

\* '0.125"'
CellEighthInch == Cell("0.125\"", Null, Null, <<12500>>, Null, Null)

Cell62 == Cell("62", Null, Null, <<6200000>>, Null, Null)

\* "150 μm"
Cell150um == Cell("150 μm", Null, <<15000000>>, <<15000000>>, Null, Null)

\* "150 μm (0.15mm)"
CellUmAndMm ==
  Cell("150 μm (0.15mm)", <<15000>>, <<15000000>>, <<15000000>>, Null, Null)

Cell0N == Cell("0N", Null, Null, <<0>>, Null, <<0>>)

Cell1N == Cell("1N", Null, Null, <<100000>>, Null, <<1>>)

Cell2N == Cell("2N", Null, Null, <<200000>>, Null, <<2>>)

Cell4N == Cell("4N", Null, Null, <<400000>>, Null, <<4>>)

Cell5N == Cell("5N", Null, Null, <<500000>>, Null, <<5>>)

\* "99.9 %"
CellPercentSpaced ==
  Cell("99.9 %", Null, Null, <<9990000>>, <<"99.9 %">>, Null)

\* "4N (99.99%)"
Cell4NAndPercent ==
  Cell("4N (99.99%)", Null, Null, <<400000>>, <<"99.99%">>, <<4>>)

\* the texts the field normalizers are applied to on their own; NoCell is
\* the empty string
NormCells ==
  {NoCell, CellNA, CellGold, Cell60mm, CellTenthMm, CellZeroMm, CellPercent,
   CellTwoInch, CellInchWord, CellInchAndMm, CellEighthInch, Cell62,
   Cell150um, CellUmAndMm, Cell0N, Cell1N, Cell2N, Cell4N, Cell5N,
   CellPercentSpaced, Cell4NAndPercent}

\* the texts among them that carry an inch marker: a quote, a double prime
\* or the word "inch" after the numeral
InchMarked == {CellTwoInch, CellInchWord, CellInchAndMm, CellEighthInch}

NormFns == {"parseDiameter", "parseThickness", "parsePurity"}

\* one call fn(text), as [threw, value]
Normalize(fn, cell) ==
  CASE fn = "parseDiameter" -> [threw |-> FALSE, value |-> parseDiameter(cell)]
    [] fn = "parseThickness" -> [threw |-> FALSE, value |-> parseThickness(cell)]
    [] fn = "parsePurity" -> parsePurity(cell)

\* no normalizer call
NoCall == [fn |-> "none", text |-> NoCell, outcome |-> Null]

\* no request served yet
NoRequest ==
  [handler |-> "none", request |-> Null, query |-> Null, countQuery |-> Null,
   response |-> Null]

\* the catalog page before the document is loaded: the state variables as
\* declared, nothing shown, no request issued. Of the five filters the
\* material dropdown and the search box are kept; the diameter, thickness
\* and type dropdowns are read and reset by the same statements as material.
NoPage ==
  [currentFilters |-> [material |-> "", search |-> ""],
   currentSort |-> "material", currentOrder |-> "asc", currentOffset |-> 0,
   productsGrid |-> <<>>, resultsCount |-> Null, pagination |-> FALSE,
   inflight |-> {}, issued |-> 0, reordered |-> FALSE, failed |-> FALSE]

CellAt(cells, k) == IF k <= Len(cells) THEN cells[k] ELSE NoCell

\* a target object of the table script; keys it does not set are missing
TableTarget(pn, type, material, purity, d, od, id, thickness, excerpt) ==
  [part_number |-> pn, target_type |-> <<type>>, material |-> <<material>>,
   purity |-> purity, diameter_mm |-> d, outer_diameter_mm |-> od,
   inner_diameter_mm |-> id, thickness_mm |-> thickness,
   backing_plate |-> Null, alloy_ratio |-> Null, notes |-> Null,
   raw_excerpt |-> <<excerpt>>]

\* the body of parseDiscTargets' .each for one row: [threw, targets]
DiscRow(row, diameterMm) ==
  IF row.th \/ Len(row.cells) < 3 THEN [threw |-> FALSE, targets |-> <<>>]
  ELSE LET partNumber == row.cells[1].text
           material == row.cells[2].text
           purity == parsePurity(row.cells[3])
           thickness == parseThickness(CellAt(row.cells, 4))
       IN IF purity.threw THEN [threw |-> TRUE, targets |-> <<>>]
          ELSE IF partNumber = "" \/ material = ""
          THEN [threw |-> FALSE, targets |-> <<>>]
          ELSE [threw |-> FALSE,
                targets |-> <<TableTarget(partNumber, "disc", material,
                                          purity.value, diameterMm, Null, Null,
                                          thickness, row.text)>>]

\* the body of parseAnnularTargets' .each for one row
AnnularRow(row) ==
  IF row.th \/ Len(row.cells) < 4 THEN <<>>
  ELSE LET partNumber == row.cells[1].text
           material == row.cells[2].text
           od == parseDiameter(row.cells[3])
           id == parseDiameter(row.cells[4])
           thickness == parseThickness(CellAt(row.cells, 5))
       IN IF partNumber = "" \/ material = "" THEN <<>>
          ELSE <<TableTarget(partNumber, "annular", material, Null, Null, od,
                             id, thickness, row.text)>>

RECURSIVE parseDiscTargets(_, _)
parseDiscTargets(rows, diameterMm) ==
  IF rows = <<>> THEN [threw |-> FALSE, targets |-> <<>>]
  ELSE LET h == DiscRow(Head(rows), diameterMm)
           rest == parseDiscTargets(Tail(rows), diameterMm)
       IN IF h.threw THEN h
          ELSE [threw |-> rest.threw, targets |-> h.targets \o rest.targets]

RECURSIVE parseAnnularTargets(_)
parseAnnularTargets(rows) ==
  IF rows = <<>> THEN <<>>
  ELSE AnnularRow(Head(rows)) \o parseAnnularTargets(Tail(rows))

\* $('table').each(...): disc targets when the heading names a diameter,
\* annular targets when the table text says so, both when both hold
RECURSIVE ScanTables(_)
ScanTables(tables) ==
  IF tables = <<>> THEN [threw |-> FALSE, targets |-> <<>>]
  ELSE LET table == Head(tables)
           disc == IF table.heading # Null
                   THEN parseDiscTargets(table.rows, table.heading)
                   ELSE [threw |-> FALSE, targets |-> <<>>]
           annular == IF table.annular THEN parseAnnularTargets(table.rows)
                      ELSE <<>>
           rest == ScanTables(Tail(tables))
       IN IF disc.threw THEN disc
          ELSE [threw |-> rest.threw,
                targets |-> disc.targets \o annular \o rest.targets]

\* the elements the fallback selector matches: every <tr>, then the others
RECURSIVE TableRows(_)
TableRows(tables) ==
  IF tables = <<>> THEN <<>>
  ELSE Head(tables).rows \o TableRows(Tail(tables))

RECURSIVE ScanElements(_)
ScanElements(els) ==
  IF els = <<>> THEN <<>>
  ELSE (IF Head(els).five # Null
        THEN <<TableTarget(Head(els).five[1], "disc", "Unknown", Null, Null,
                           Null, Null, Null, Head(els).text)>>
        ELSE <<>>) \o ScanElements(Tail(els))

\* parseTargetsFromHTML of the table script: [threw, targets]
parseTargetsFromHTML_tables(page) ==
  LET found == ScanTables(page.tables)
      rowEls == [k \in 1..Len(TableRows(page.tables)) |->
                   Element(TableRows(page.tables)[k].text,
                           TableRows(page.tables)[k].five)]
  IN IF found.threw \/ Len(found.targets) > 0 THEN found
     ELSE [threw |-> FALSE, targets |-> ScanElements(rowEls \o page.els)]

----------------------------------------------------------------------------
(* The store *)

\* the 13 values bound to $1..$13 by upsertTarget
UpsertValues(target, sid) ==
  [source_id |-> sid,
   part_number |-> target.part_number,
   target_type |-> IF Truthy(target.target_type) THEN target.target_type[1]
                   ELSE "disc",
   material |-> target.material,
   purity |-> StrOrNull(target.purity),
   diameter_mm |-> NumOrNull(target.diameter_mm),
   outer_diameter_mm |-> NumOrNull(target.outer_diameter_mm),
   inner_diameter_mm |-> NumOrNull(target.inner_diameter_mm),
   thickness_mm |-> NumOrNull(target.thickness_mm),
   backing_plate |-> StrOrNull(target.backing_plate),
   alloy_ratio |-> StrOrNull(target.alloy_ratio),
   notes |-> StrOrNull(target.notes),
   raw_excerpt |-> StrOrNull(target.raw_excerpt)]

\* a value assigned to a DECIMAL(10,3) column is rounded to 3 decimals
Decimal3(x) == IF x = Null THEN Null ELSE <<((x[1] + 50) \div 100) * 100>>

\* a value assigned to a DECIMAL(10,4) column is rounded to 4 decimals
Decimal4(x) == IF x = Null THEN Null ELSE <<((x[1] + 5) \div 10) * 10>>

\* the values as the columns of table targets hold them
Columns(v) ==
  [v EXCEPT !.diameter_mm = Decimal3(@),
            !.outer_diameter_mm = Decimal3(@),
            !.inner_diameter_mm = Decimal3(@),
            !.thickness_mm = Decimal4(@)]

\* a targets table without the UNIQUE(part_number) constraint: no row ever
\* conflicts
ConflictRows_noConstraint(tbl, pn) == {}

\* rows of tbl that conflict with part number pn under UNIQUE(part_number)
ConflictRows(tbl, pn) == {r \in tbl : r.part_number = pn}

\* an INSERT column list without raw_excerpt, which the DO UPDATE SET list
\* still sets
InsertedRow_noExcerpt(v, newId, t) ==
  [id |-> newId,
   source_id |-> v.source_id, part_number |-> v.part_number,
   target_type |-> v.target_type, material |-> v.material,
   purity |-> v.purity, diameter_mm |-> v.diameter_mm,
   outer_diameter_mm |-> v.outer_diameter_mm,
   inner_diameter_mm |-> v.inner_diameter_mm,
   thickness_mm |-> v.thickness_mm, backing_plate |-> v.backing_plate,
   alloy_ratio |-> v.alloy_ratio, notes |-> v.notes,
   raw_excerpt |-> <<>>,
   price_usd |-> <<>>, price_notes |-> <<>>,
   created_at |-> t, updated_at |-> t, xmax |-> 0]

\* the row INSERT INTO targets (...) VALUES (...) creates: the columns not
\* listed take their defaults
InsertedRow(v, newId, t) ==
  [id |-> newId,
   source_id |-> v.source_id, part_number |-> v.part_number,
   target_type |-> v.target_type, material |-> v.material,
   purity |-> v.purity, diameter_mm |-> v.diameter_mm,
   outer_diameter_mm |-> v.outer_diameter_mm,
   inner_diameter_mm |-> v.inner_diameter_mm,
   thickness_mm |-> v.thickness_mm, backing_plate |-> v.backing_plate,
   alloy_ratio |-> v.alloy_ratio, notes |-> v.notes,
   raw_excerpt |-> v.raw_excerpt,
   price_usd |-> Null, price_notes |-> Null,
   created_at |-> t, updated_at |-> t, xmax |-> 0]

\* a DO UPDATE SET list that merges: COALESCE(EXCLUDED.col, targets.col)
UpdatedRow_merge(r, v, t) ==
  LET keep(new, old) == IF new = <<>> THEN old ELSE new
  IN [r EXCEPT !.source_id = v.source_id, !.target_type = v.target_type,
               !.material = v.material, !.purity = keep(v.purity, @),
               !.diameter_mm = keep(v.diameter_mm, @),
               !.outer_diameter_mm = keep(v.outer_diameter_mm, @),
               !.inner_diameter_mm = keep(v.inner_diameter_mm, @),
               !.thickness_mm = keep(v.thickness_mm, @),
               !.backing_plate = keep(v.backing_plate, @),
               !.alloy_ratio = keep(v.alloy_ratio, @),
               !.notes = keep(v.notes, @),
               !.raw_excerpt = keep(v.raw_excerpt, @),
               !.updated_at = t, !.xmax = t]

\* a DO UPDATE SET list without updated_at = NOW(), on a table without the
\* BEFORE UPDATE trigger
UpdatedRow_noTimestamp(r, v, t) ==
  [r EXCEPT !.source_id = v.source_id, !.target_type = v.target_type,
            !.material = v.material, !.purity = v.purity,
            !.diameter_mm = v.diameter_mm,
            !.outer_diameter_mm = v.outer_diameter_mm,
            !.inner_diameter_mm = v.inner_diameter_mm,
            !.thickness_mm = v.thickness_mm,
            !.backing_plate = v.backing_plate,
            !.alloy_ratio = v.alloy_ratio, !.notes = v.notes,
            !.raw_excerpt = v.raw_excerpt,
            !.xmax = t]

\* a DO UPDATE SET list without source_id = EXCLUDED.source_id
UpdatedRow_keepSource(r, v, t) ==
  [r EXCEPT !.target_type = v.target_type,
            !.material = v.material, !.purity = v.purity,
            !.diameter_mm = v.diameter_mm,
            !.outer_diameter_mm = v.outer_diameter_mm,
            !.inner_diameter_mm = v.inner_diameter_mm,
            !.thickness_mm = v.thickness_mm,
            !.backing_plate = v.backing_plate,
            !.alloy_ratio = v.alloy_ratio, !.notes = v.notes,
            !.raw_excerpt = v.raw_excerpt,
            !.updated_at = t, !.xmax = t]

\* the DO UPDATE SET list of upsertTarget applied to row r, followed by the
\* BEFORE UPDATE trigger update_updated_at_column
UpdatedRow(r, v, t) ==
  [r EXCEPT !.source_id = v.source_id, !.target_type = v.target_type,
            !.material = v.material, !.purity = v.purity,
            !.diameter_mm = v.diameter_mm,
            !.outer_diameter_mm = v.outer_diameter_mm,
            !.inner_diameter_mm = v.inner_diameter_mm,
            !.thickness_mm = v.thickness_mm,
            !.backing_plate = v.backing_plate,
            !.alloy_ratio = v.alloy_ratio, !.notes = v.notes,
            !.raw_excerpt = v.raw_excerpt,
            !.updated_at = t, !.xmax = t]

\* an upsert followed by a retirement pass: rows attributed to another
\* Source are deleted
upsertTarget_retire(tbl, target, sid, newId, t) ==
  LET v == Columns(UpsertValues(target, sid))
      hit == ConflictRows(tbl, v.part_number)
      written == IF hit = {} THEN {InsertedRow(v, newId, t)}
                 ELSE {UpdatedRow(r, v, t) : r \in hit}
  IN [targets |-> {r \in (tbl \ hit) \cup written : r.source_id = sid},
      rows |-> {[id |-> r.id, is_insert |-> (r.xmax = 0)] : r \in written}]

\* INSERT ... ON CONFLICT (part_number) DO UPDATE SET ... RETURNING id,
\* (xmax = 0) as is_insert.  Yields the new table and the returned rows.
upsertTarget(tbl, target, sid, newId, t) ==
  LET v == Columns(UpsertValues(target, sid))
      hit == ConflictRows(tbl, v.part_number)
      written == IF hit = {} THEN {InsertedRow(v, newId, t)}
                 ELSE {UpdatedRow(r, v, t) : r \in hit}
  IN [targets |-> (tbl \ hit) \cup written,
      rows |-> {[id |-> r.id, is_insert |-> (r.xmax = 0)] : r \in written}]

\* a sources table without the UNIQUE(vendor, source_url) constraint
SourceConflictRows_noConstraint(src, vendor, url) == {}

\* rows of src that conflict under UNIQUE(vendor, source_url)
SourceConflictRows(src, vendor, url) ==
  {r \in src : r.vendor = vendor /\ r.source_url = url}

\* INSERT INTO sources (vendor, source_url, source_page_title, last_fetched_at)
\* ... ON CONFLICT (vendor, source_url) DO UPDATE SET last_fetched_at = NOW(),
\* source_page_title = EXCLUDED.source_page_title RETURNING id
upsertSource(src, newId, t) ==
  LET title == <<"Disk or Annular Sputter Targets">>
      hit == SourceConflictRows(src, VENDOR, SOURCE_URL)
      written == IF hit = {}
                 THEN {[id |-> newId, vendor |-> VENDOR,
                        source_url |-> SOURCE_URL, source_page_title |-> title,
                        last_fetched_at |-> t, created_at |-> t]}
                 ELSE {[r EXCEPT !.last_fetched_at = t,
                                 !.source_page_title = title] : r \in hit}
  IN [sources |-> (src \ hit) \cup written,
      ids |-> {r.id : r \in written}]

\* upsertSource of the table script: no page title, and the conflict
\* branch sets last_fetched_at only
upsertSource_tables(src, newId, t) ==
  LET hit == SourceConflictRows(src, VENDOR, SOURCE_URL_tables)
      written == IF hit = {}
                 THEN {[id |-> newId, vendor |-> VENDOR,
                        source_url |-> SOURCE_URL_tables,
                        source_page_title |-> Null,
                        last_fetched_at |-> t, created_at |-> t]}
                 ELSE {[r EXCEPT !.last_fetched_at = t] : r \in hit}
  IN [sources |-> (src \ hit) \cup written,
      ids |-> {r.id : r \in written}]

----------------------------------------------------------------------------
(* The seed script *)

SEED_URL == "https://www.tedpella.com/sputter-targets"

\* two of the sampleTargets: a disc and an annular target
sampleTargets ==
  << [part_number |-> "91700", material |-> <<"Gold">>, purity |-> <<"99.99%">>,
      diameter_mm |-> <<6200000>>, outer_diameter_mm |-> Null,
      inner_diameter_mm |-> Null, thickness_mm |-> <<10000>>,
      target_type |-> "disc", alloy_ratio |-> Null],
     [part_number |-> "93000", material |-> <<"Gold">>, purity |-> <<"99.99%">>,
      diameter_mm |-> Null, outer_diameter_mm |-> <<6000000>>,
      inner_diameter_mm |-> <<2000000>>, thickness_mm |-> <<10000>>,
      target_type |-> "annular", alloy_ratio |-> Null] >>

\* seed(): INSERT INTO sources (vendor, source_url, source_page_title) ...
\* ON CONFLICT (vendor, source_url) DO UPDATE SET last_fetched_at = NOW()
seedSource(src, newId, t) ==
  LET hit == SourceConflictRows(src, VENDOR, SEED_URL)
      written == IF hit = {}
                 THEN {[id |-> newId, vendor |-> VENDOR, source_url |-> SEED_URL,
                        source_page_title |->
                          <<"Disc or Annular Sputter Targets (Sample Data)">>,
                        last_fetched_at |-> t, created_at |-> t]}
                 ELSE {[r EXCEPT !.last_fetched_at = t] : r \in hit}
  IN [sources |-> (src \ hit) \cup written,
      ids |-> {r.id : r \in written}]

\* the 10 values the seed loop binds
SeedValues(target, sid) ==
  [source_id |-> sid,
   part_number |-> target.part_number,
   target_type |-> target.target_type,
   material |-> target.material,
   purity |-> target.purity,
   diameter_mm |-> NumOrNull(target.diameter_mm),
   outer_diameter_mm |-> NumOrNull(target.outer_diameter_mm),
   inner_diameter_mm |-> NumOrNull(target.inner_diameter_mm),
   thickness_mm |-> NumOrNull(target.thickness_mm),
   alloy_ratio |-> StrOrNull(target.alloy_ratio),
   backing_plate |-> Null, notes |-> Null, raw_excerpt |-> Null]

\* a seed DO UPDATE SET list that also sets created_at = NOW()
SeedUpdatedRow_recreated(r, v, t) ==
  [r EXCEPT !.material = v.material, !.purity = v.purity,
            !.diameter_mm = v.diameter_mm,
            !.outer_diameter_mm = v.outer_diameter_mm,
            !.inner_diameter_mm = v.inner_diameter_mm,
            !.thickness_mm = v.thickness_mm,
            !.alloy_ratio = v.alloy_ratio,
            !.created_at = t, !.updated_at = t, !.xmax = t]

\* the DO UPDATE SET list of the seed loop applied to row r, followed by
\* the BEFORE UPDATE trigger
SeedUpdatedRow(r, v, t) ==
  [r EXCEPT !.material = v.material, !.purity = v.purity,
            !.diameter_mm = v.diameter_mm,
            !.outer_diameter_mm = v.outer_diameter_mm,
            !.inner_diameter_mm = v.inner_diameter_mm,
            !.thickness_mm = v.thickness_mm,
            !.alloy_ratio = v.alloy_ratio,
            !.updated_at = t, !.xmax = t]

\* the seed loop's INSERT ... ON CONFLICT (part_number) DO UPDATE SET ...
seedTarget(tbl, target, sid, newId, t) ==
  LET v == Columns(SeedValues(target, sid))
      hit == ConflictRows(tbl, v.part_number)
      written == IF hit = {} THEN {InsertedRow(v, newId, t)}
                 ELSE {SeedUpdatedRow(r, v, t) : r \in hit}
  IN (tbl \ hit) \cup written

----------------------------------------------------------------------------
(* The processes.  One script runs at a time, from its first line to the   *)
(* end of the process; the next process starts after it.                   *)

Ingests == {"ingest", "ingest_tables"}

Scripts == Ingests \cup {"seed"}

PagesFor(p) ==
  CASE p = "ingest" -> DescriptionPages
    [] p = "ingest_tables" -> TablePages

\* parseTargetsFromHTML of script p: [threw, targets]
Parse(p, page) ==
  CASE p = "ingest" -> [threw |-> FALSE, targets |-> parseTargetsFromHTML(page)]
    [] p = "ingest_tables" -> parseTargetsFromHTML_tables(page)

\* the sources statement of script p
SourceStatement(p, src, newId, t) ==
  CASE p = "ingest" -> upsertSource(src, newId, t)
    [] p = "ingest_tables" -> upsertSource_tables(src, newId, t)
    [] p = "seed" -> seedSource(src, newId, t)

NoRun == [prog |-> "none", html |-> Null, emptyStart |-> FALSE, before |-> {},
          interrupted |-> FALSE,
          candidates |-> <<>>, threw |-> 0, attempted |-> <<>>,
          srcCalls |-> 0, srcAt |-> Null, report |-> Null, after |-> {}]

Init ==
  /\ sources = {} /\ targets = {}
  /\ sources_id_seq = 0 /\ targets_id_seq = 0
  /\ now = 1
  /\ pc = "idle" /\ prog = "none" /\ html = Null
  /\ parsedTargets = <<>> /\ idx = 0
  /\ client = "none" /\ poolEnded = FALSE
  /\ sourceId = Null
  /\ inserted = 0 /\ updated = 0 /\ errors = 0
  /\ result = Null /\ report = Null /\ exitCode = Null
  /\ started = 0 /\ faults = 0
  /\ run = NoRun /\ prev = NoRun
  /\ norm = NoCall
  /\ api = NoRequest
  /\ ui = NoPage

\* the failure is logged and the script carries on to pool.connect()
Exit1_carryOn == pc' = "connect" /\ exitCode' = exitCode

\* process.exit(1): the process ends at once, no finally block runs
Exit1 == pc' = "ended" /\ exitCode' = <<1>>

\* the environment makes the awaited operation fail
Fault == faults < MaxFaults /\ faults' = faults + 1

\* a new process: module state is fresh
Fresh(p) ==
  /\ pc \in {"idle", "ended"}
  /\ started < MaxRuns
  /\ started' = started + 1
  /\ prog' = p
  /\ idx' = 0
  /\ client' = "none" /\ poolEnded' = FALSE
  /\ sourceId' = Null
  /\ inserted' = 0 /\ updated' = 0 /\ errors' = 0
  /\ result' = Null /\ report' = Null
  /\ prev' = [run EXCEPT !.after = targets]

\* ingest(): const html = await fetchSourceHTML()
Fetch(p, page) ==
  /\ Fresh(p)
  /\ html' = <<page>> /\ parsedTargets' = <<>>
  /\ run' = [NoRun EXCEPT !.prog = p, !.html = <<page>>,
                          !.emptyStart = (targets = {}),
                          !.before = targets]
  /\ pc' = "parse" /\ exitCode' = Null
  /\ UNCHANGED <<restVars, dbVars, faults>>

\* fetchSourceHTML throws (response not ok): catch, process.exit(1)
FetchFails(p) ==
  /\ Fresh(p)
  /\ Fault
  /\ html' = Null /\ parsedTargets' = <<>>
  /\ run' = [NoRun EXCEPT !.prog = p, !.emptyStart = (targets = {}),
                          !.before = targets]
  /\ Exit1
  /\ UNCHANGED <<restVars, dbVars>>

\* seed(): the script starts at pool.connect()
SeedStart ==
  /\ Fresh("seed")
  /\ html' = Null
  /\ parsedTargets' = sampleTargets
  /\ run' = [NoRun EXCEPT !.prog = "seed", !.emptyStart = (targets = {}),
                          !.before = targets]
  /\ pc' = "connect" /\ exitCode' = Null
  /\ UNCHANGED <<restVars, dbVars, faults>>

\* const targets = parseTargetsFromHTML(html);
\* if (targets.length === 0) process.exit(1)
\* An exception thrown while parsing lands in catch: process.exit(1).
ParseStep ==
  /\ pc = "parse"
  /\ LET t == Parse(prog, html[1])
     IN /\ parsedTargets' = t.targets
        /\ run' = [run EXCEPT !.candidates =
                     IF prog = "ingest" THEN Candidates(html[1]) ELSE t.targets]
        /\ IF t.threw \/ Len(t.targets) = 0
           THEN Exit1
           ELSE pc' = "connect" /\ UNCHANGED exitCode
  /\ UNCHANGED <<restVars, dbVars, prog, html, idx, client, poolEnded, sourceId,
                 inserted, updated, errors, result, report, prev, started,
                 faults>>

\* client = await pool.connect()
Connect ==
  /\ pc = "connect"
  /\ client' = "held"
  /\ pc' = "source"
  /\ UNCHANGED <<restVars, dbVars, prog, html, parsedTargets, idx, poolEnded, sourceId,
                 inserted, updated, errors, result, report, exitCode, run, prev,
                 started, faults>>

\* pool.connect() rejects: catch, process.exit(1)
ConnectFails ==
  /\ pc = "connect"
  /\ Fault
  /\ Exit1
  /\ UNCHANGED <<restVars, dbVars, prog, html, parsedTargets, idx, client, poolEnded,
                 sourceId, inserted, updated, errors, result, report, run, prev,
                 started>>

\* const sourceId = await upsertSource(client); let inserted = 0, ...
\* (seed: const sourceId = sourceResult.rows[0].id)
UpsertSourceStep ==
  /\ pc = "source"
  /\ LET r == SourceStatement(prog, sources, sources_id_seq + 1, now)
     IN /\ sources' = r.sources
        /\ sourceId' = <<CHOOSE i \in r.ids : TRUE>>
  /\ sources_id_seq' = sources_id_seq + 1
  /\ now' = now + 1
  /\ pc' = "loop" /\ idx' = 1
  /\ run' = [run EXCEPT !.srcCalls = @ + 1, !.srcAt = <<now>>]
  /\ UNCHANGED <<restVars, targets, targets_id_seq, prog, html, parsedTargets, client,
                 poolEnded, inserted, updated, errors, result, report,
                 exitCode, prev, started, faults>>

\* the sources statement fails: catch, process.exit(1)
UpsertSourceFails ==
  /\ pc = "source"
  /\ Fault
  /\ Exit1
  /\ run' = [run EXCEPT !.srcCalls = @ + 1]
  /\ UNCHANGED <<restVars, dbVars, prog, html, parsedTargets, idx, client, poolEnded,
                 sourceId, inserted, updated, errors, result, report, prev,
                 started>>

\* the branches of the counting statement exchanged
CountResult_swapped(is_insert, ins, upd) ==
  IF is_insert THEN [inserted |-> ins, updated |-> upd + 1]
  ELSE [inserted |-> ins + 1, updated |-> upd]

\* if (result.rows[0].is_insert) { inserted++; } else { updated++; }
CountResult(is_insert, ins, upd) ==
  IF is_insert THEN [inserted |-> ins + 1, updated |-> upd]
  ELSE [inserted |-> ins, updated |-> upd + 1]

\* one iteration of for (const target of targets), upsertTarget resolves
UpsertTargetStep ==
  /\ pc = "loop" /\ prog \in Ingests
  /\ idx <= Len(parsedTargets)
  /\ LET target == parsedTargets[idx]
         r == upsertTarget(targets, target, sourceId[1], targets_id_seq + 1, now)
         row0 == CHOOSE x \in r.rows : TRUE
         counted == CountResult(row0.is_insert, inserted, updated)
     IN /\ targets' = r.targets
        /\ result' = <<[threw |-> FALSE, id |-> row0.id,
                        is_insert |-> row0.is_insert]>>
        /\ inserted' = counted.inserted
        /\ updated' = counted.updated
        /\ run' = [run EXCEPT !.attempted = Append(@, target.part_number)]
  /\ targets_id_seq' = targets_id_seq + 1
  /\ now' = now + 1
  /\ idx' = idx + 1
  /\ UNCHANGED <<restVars, sources, sources_id_seq, pc, prog, html, parsedTargets,
                 client, poolEnded, sourceId, errors, report, exitCode, prev,
                 started, faults>>

\* one iteration, upsertTarget rejects: the description script's catch logs
\* and counts (errors++), the table script's catch only logs
UpsertTargetThrows ==
  /\ pc = "loop" /\ prog \in Ingests
  /\ idx <= Len(parsedTargets)
  /\ Fault
  /\ result' = <<[threw |-> TRUE, id |-> 0, is_insert |-> FALSE]>>
  /\ errors' = IF prog = "ingest" THEN errors + 1 ELSE errors
  /\ run' = [run EXCEPT !.attempted = Append(@, parsedTargets[idx].part_number),
                        !.threw = @ + 1]
  /\ idx' = idx + 1
  /\ UNCHANGED <<restVars, dbVars, pc, prog, html, parsedTargets, client, poolEnded,
                 sourceId, inserted, updated, report, exitCode, prev, started>>

\* the process is killed between two statements of the loop: the upserts
\* already awaited are committed (each statement is its own transaction),
\* nothing after runs, neither catch nor finally
Interrupted ==
  /\ pc = "loop" /\ prog \in Ingests
  /\ Fault
  /\ pc' = "ended" /\ exitCode' = <<137>>
  /\ run' = [run EXCEPT !.interrupted = TRUE]
  /\ UNCHANGED <<restVars, dbVars, prog, html, parsedTargets, idx, client, poolEnded,
                 sourceId, inserted, updated, errors, result, report, prev,
                 started>>

\* one iteration of the seed loop: await client.query(...); inserted++
SeedTargetStep ==
  /\ pc = "loop" /\ prog = "seed"
  /\ idx <= Len(parsedTargets)
  /\ targets' = seedTarget(targets, parsedTargets[idx], sourceId[1],
                           targets_id_seq + 1, now)
  /\ inserted' = inserted + 1
  /\ run' = [run EXCEPT !.attempted = Append(@, parsedTargets[idx].part_number)]
  /\ targets_id_seq' = targets_id_seq + 1
  /\ now' = now + 1
  /\ idx' = idx + 1
  /\ UNCHANGED <<restVars, sources, sources_id_seq, pc, prog, html, parsedTargets,
                 client, poolEnded, sourceId, updated, errors, result, report,
                 exitCode, prev, started, faults>>

\* the seed loop has no try/catch of its own: catch, process.exit(1)
SeedTargetFails ==
  /\ pc = "loop" /\ prog = "seed"
  /\ idx <= Len(parsedTargets)
  /\ Fault
  /\ Exit1
  /\ run' = [run EXCEPT !.attempted = Append(@, parsedTargets[idx].part_number),
                        !.threw = @ + 1]
  /\ UNCHANGED <<restVars, dbVars, prog, html, parsedTargets, idx, client, poolEnded,
                 sourceId, inserted, updated, errors, result, report, prev,
                 started>>

\* what the script prints after the loop; a count it does not print is <<>>
Printed(p, ins, upd, err, total) ==
  CASE p = "ingest" ->
         [inserted |-> <<ins>>, updated |-> <<upd>>, errors |-> <<err>>,
          total |-> <<total>>]
    [] p = "ingest_tables" ->
         [inserted |-> <<ins>>, updated |-> <<upd>>, errors |-> Null,
          total |-> <<total>>]
    [] p = "seed" ->
         [inserted |-> <<ins>>, updated |-> Null, errors |-> Null,
          total |-> Null]

\* the console.log lines after the loop; the table script has no more
\* statements before finally
ReportStep ==
  /\ pc = "loop"
  /\ idx > Len(parsedTargets)
  /\ report' = <<Printed(prog, inserted, updated, errors, Len(parsedTargets))>>
  /\ run' = [run EXCEPT !.report = report']
  /\ pc' = IF prog = "ingest_tables" THEN "finally" ELSE "stats"
  /\ UNCHANGED <<restVars, dbVars, prog, html, parsedTargets, idx, client, poolEnded,
                 sourceId, inserted, updated, errors, result, exitCode, prev,
                 started, faults>>

\* const stats = await client.query(SELECT COUNT(*) ... FROM targets)
Stats ==
  /\ pc = "stats"
  /\ now' = now + 1
  /\ pc' = "finally"
  /\ UNCHANGED <<restVars, sources, targets, sources_id_seq, targets_id_seq, prog, html,
                 parsedTargets, idx, client, poolEnded, sourceId, inserted,
                 updated, errors, result, report, exitCode, run, prev, started,
                 faults>>

\* the statistics query fails: catch, process.exit(1)
StatsFails ==
  /\ pc = "stats"
  /\ Fault
  /\ Exit1
  /\ UNCHANGED <<restVars, dbVars, prog, html, parsedTargets, idx, client, poolEnded,
                 sourceId, inserted, updated, errors, result, report, run, prev,
                 started>>

\* finally { if (client) client.release(); await pool.end(); }
Finally ==
  /\ pc = "finally"
  /\ client' = IF client = "held" THEN "released" ELSE client
  /\ poolEnded' = TRUE
  /\ pc' = "ended" /\ exitCode' = <<0>>
  /\ UNCHANGED <<restVars, dbVars, prog, html, parsedTargets, idx, sourceId, inserted,
                 updated, errors, result, report, run, prev, started, faults>>

Next ==
  \/ \E p \in Ingests : \E page \in PagesFor(p) : Fetch(p, page)
  \/ \E p \in Ingests : FetchFails(p)
  \/ SeedStart
  \/ ParseStep
  \/ Connect
  \/ ConnectFails
  \/ UpsertSourceStep
  \/ UpsertSourceFails
  \/ UpsertTargetStep
  \/ UpsertTargetThrows
  \/ Interrupted
  \/ SeedTargetStep
  \/ SeedTargetFails
  \/ ReportStep
  \/ Stats
  \/ StatsFails
  \/ Finally

Spec == Init /\ [][Next]_vars

----------------------------------------------------------------------------
(* One run of an ingestion script on any page of up to MaxEntries entries, *)
(* from the empty store, with no failure.                                  *)

AllPagesFor(p) ==
  CASE p = "ingest" -> AllDescriptionPages
    [] p = "ingest_tables" -> AllTablePages

\* the process has fetched a page and is about to parse it
InitOneRun ==
  /\ sources = {} /\ targets = {}
  /\ sources_id_seq = 0 /\ targets_id_seq = 0
  /\ now = 1
  /\ prog \in Ingests
  /\ \E page \in AllPagesFor(prog) :
       /\ html = <<page>>
       /\ run = [NoRun EXCEPT !.prog = prog, !.html = <<page>>,
                              !.emptyStart = TRUE]
  /\ pc = "parse"
  /\ parsedTargets = <<>> /\ idx = 0
  /\ client = "none" /\ poolEnded = FALSE
  /\ sourceId = Null
  /\ inserted = 0 /\ updated = 0 /\ errors = 0
  /\ result = Null /\ report = Null /\ exitCode = Null
  /\ started = 1 /\ faults = 0
  /\ prev = NoRun
  /\ norm = NoCall
  /\ api = NoRequest
  /\ ui = NoPage

NextOneRun ==
  \/ ParseStep
  \/ Connect
  \/ UpsertSourceStep
  \/ UpsertTargetStep
  \/ ReportStep
  \/ Stats
  \/ Finally

SpecOneRun == InitOneRun /\ [][NextOneRun]_vars

----------------------------------------------------------------------------
(* The field normalizers on their own: one call of parseDiameter,          *)
(* parseThickness or parsePurity on one text.                              *)

InitNormalize ==
  /\ sources = {} /\ targets = {}
  /\ sources_id_seq = 0 /\ targets_id_seq = 0
  /\ now = 1
  /\ pc = "idle" /\ prog = "none" /\ html = Null
  /\ parsedTargets = <<>> /\ idx = 0
  /\ client = "none" /\ poolEnded = FALSE
  /\ sourceId = Null
  /\ inserted = 0 /\ updated = 0 /\ errors = 0
  /\ result = Null /\ report = Null /\ exitCode = Null
  /\ started = 0 /\ faults = 0
  /\ run = NoRun /\ prev = NoRun
  /\ \E fn \in NormFns : \E cell \in NormCells :
       norm = [fn |-> fn, text |-> cell, outcome |-> Null]
  /\ api = NoRequest
  /\ ui = NoPage

\* the call returns a value or null
NormalizeReturns ==
  /\ norm.outcome = Null
  /\ ~Normalize(norm.fn, norm.text).threw
  /\ norm' = [norm EXCEPT !.outcome = <<Normalize(norm.fn, norm.text)>>]
  /\ UNCHANGED <<ingestVars, api, ui>>

\* the call throws
NormalizeThrows ==
  /\ norm.outcome = Null
  /\ Normalize(norm.fn, norm.text).threw
  /\ norm' = [norm EXCEPT !.outcome = <<[threw |-> TRUE, value |-> Null]>>]
  /\ UNCHANGED <<ingestVars, api, ui>>

NextNormalize == NormalizeReturns \/ NormalizeThrows

SpecNormalize == InitNormalize /\ [][NextNormalize]_vars

----------------------------------------------------------------------------
(* Properties *)

\* the stored field values of a table, leaving out the write bookkeeping
Fields(tbl) == {[r EXCEPT !.updated_at = 0, !.xmax = 0] : r \in tbl}

\* the current process is the second of two complete runs of the same
\* ingestion script on the same content, the first from an empty store,
\* with no upsert failing in either
SecondOfTwoRuns ==
  /\ prog \in Ingests
  /\ report # Null
  /\ prev.prog = prog /\ prev.html = html
  /\ prev.emptyStart /\ prev.report # Null
  /\ prev.threw = 0 /\ run.threw = 0

\* C1: when ingest is run twice in succession on identical content starting
\* from an empty targets store and no upsert fails, the second run reports
\* zero inserts and exactly N updates, N being the insert count the first run
\* reported, and every stored target has the same field values after the
\* second run as after the first.
C1_Idempotent ==
  SecondOfTwoRuns =>
    /\ report[1].inserted = <<0>>
    /\ report[1].updated = prev.report[1].inserted
    /\ Fields(targets) = Fields(prev.after)

\* C1 for the description script alone, which deduplicates before writing
C1_IdempotentDescriptionScript ==
  (SecondOfTwoRuns /\ prog = "ingest") =>
    /\ report[1].inserted = <<0>>
    /\ report[1].updated = prev.report[1].inserted
    /\ Fields(targets) = Fields(prev.after)

C1_SecondRunDone ==
  SecondOfTwoRuns /\ prog = "ingest" /\ Len(parsedTargets) = 2

\* C2: the targets store holds at most one row per part_number, whichever
\* script and Source wrote the row.
C2_PartNumberUnique ==
  \A r1, r2 \in targets : r1.part_number = r2.part_number => r1 = r2

\* two part numbers are stored, and one of them was written by a seed run
\* after an ingestion run had inserted it
C2_RewrittenBySeed ==
  /\ Cardinality(targets) = 2
  /\ prog = "seed"
  /\ \E r \in targets : r.updated_at > r.created_at /\ r.source_id # sourceId[1]

\* the number of records of the parsed list that carry part number pn
Records(pn) ==
  Cardinality({k \in DOMAIN parsedTargets : parsedTargets[k].part_number = pn})

\* the number of upserts the loop has issued for part number pn
Upserts(pn) ==
  Cardinality({k \in DOMAIN run.attempted : run.attempted[k] = pn})

\* C3: for every part number that appears in k >= 1 candidates of one run,
\* parseTargetsFromHTML returns exactly one record with that part number, so
\* the ingest loop issues exactly one upsert per distinct part number per run.
C3_OneRecordPerPartNumber ==
  (prog \in Ingests /\ pc \notin {"idle", "parse"}) =>
    \A k \in DOMAIN run.candidates :
      /\ Records(run.candidates[k].part_number) = 1
      /\ report # Null => Upserts(run.candidates[k].part_number) = 1

\* C3 for the description script alone
C3_OneRecordDescriptionScript ==
  (prog = "ingest" /\ pc \notin {"idle", "parse"}) =>
    \A k \in DOMAIN run.candidates :
      /\ Records(run.candidates[k].part_number) = 1
      /\ report # Null => Upserts(run.candidates[k].part_number) = 1

C3_DuplicateCandidates ==
  /\ prog = "ingest" /\ report # Null
  /\ \E j, k \in DOMAIN run.candidates :
       j # k /\ run.candidates[j].part_number = run.candidates[k].part_number

\* an upsertTarget call of the ingest loop resolves in this step
UpsertResolves ==
  /\ pc = "loop" /\ prog \in Ingests
  /\ idx' = idx + 1
  /\ ~result'[1].threw

\* C4: upsertTarget reports an insert (is_insert true) if and only if no
\* targets row with the same part_number existed immediately before the
\* write; the loop increments `inserted` exactly for an insert and `updated`
\* exactly for an update.
C4_InsertIffAbsent ==
  [][UpsertResolves =>
       LET pn == parsedTargets[idx].part_number
           existed == \E r \in targets : r.part_number = pn
       IN /\ result'[1].is_insert <=> ~existed
          /\ inserted' = inserted + (IF existed THEN 0 ELSE 1)
          /\ updated' = updated + (IF existed THEN 1 ELSE 0)]_vars

\* within one run the loop has counted one insert and one update
C4_InsertThenUpdate ==
  /\ prog \in Ingests /\ pc = "loop"
  /\ inserted = 1 /\ updated = 1
  /\ result # Null /\ ~result[1].threw /\ ~result[1].is_insert

\* the targets row holding part number pn in table tbl
RowOf(tbl, pn) == CHOOSE r \in tbl : r.part_number = pn

\* an upsertTarget call of the ingest loop resolves in this step as an update
\* of an existing row
UpdateResolves ==
  /\ UpsertResolves
  /\ \E r \in targets : r.part_number = parsedTargets[idx].part_number

\* C5 as stated: after an upsert onto an existing part_number every mutable
\* field of the stored target equals the value in the new record, and a
\* field absent from the new record is stored as null.
C5_StoredEqualsRecord ==
  [][UpdateResolves =>
       LET t == parsedTargets[idx]
           row == RowOf(targets', t.part_number)
       IN /\ row.source_id = sourceId[1]
          /\ <<row.target_type>> = t.target_type
          /\ row.material = t.material
          /\ row.purity = t.purity
          /\ row.diameter_mm = t.diameter_mm
          /\ row.outer_diameter_mm = t.outer_diameter_mm
          /\ row.inner_diameter_mm = t.inner_diameter_mm
          /\ row.thickness_mm = t.thickness_mm
          /\ row.backing_plate = t.backing_plate
          /\ row.alloy_ratio = t.alloy_ratio
          /\ row.notes = t.notes
          /\ row.raw_excerpt = t.raw_excerpt]_vars

\* C5, amended: after an upsert onto an existing part_number every mutable
\* field of the stored target equals the value in the new record, except
\* that a numeric 0 or an empty string in the record is stored as null, a
\* record without a target type is stored as 'disc', and a dimension is
\* stored rounded to the scale of its column; a field absent from the new
\* record is stored as null even if the previous row had a value.
C5_FullReplacement ==
  [][UpdateResolves =>
       LET t == parsedTargets[idx]
           row == RowOf(targets', t.part_number)
       IN /\ row.source_id = sourceId[1]
          /\ row.target_type =
               (IF t.target_type = <<>> THEN "disc" ELSE t.target_type[1])
          /\ row.material = t.material
          /\ row.purity = StrOrNull(t.purity)
          /\ row.diameter_mm = Decimal3(NumOrNull(t.diameter_mm))
          /\ row.outer_diameter_mm = Decimal3(NumOrNull(t.outer_diameter_mm))
          /\ row.inner_diameter_mm = Decimal3(NumOrNull(t.inner_diameter_mm))
          /\ row.thickness_mm = Decimal4(NumOrNull(t.thickness_mm))
          /\ row.backing_plate = StrOrNull(t.backing_plate)
          /\ row.alloy_ratio = StrOrNull(t.alloy_ratio)
          /\ row.notes = StrOrNull(t.notes)
          /\ row.raw_excerpt = StrOrNull(t.raw_excerpt)]_vars

\* an update has replaced a backing plate the row had at the start of the
\* run by null, the new record having none
C5_ValueReplacedByNull ==
  /\ prog \in Ingests /\ result # Null
  /\ ~result[1].threw /\ ~result[1].is_insert
  /\ \E old \in prev.after : \E new \in targets :
       /\ old.id = new.id /\ new.id = result[1].id
       /\ old.backing_plate # Null /\ new.backing_plate = Null
       /\ old.notes # Null /\ new.notes = Null

\* C6: once a targets row for a part_number has been inserted, no later
\* upsert of that part_number, from ingest or seed, changes its created_at.
C6_CreatedAtImmutable ==
  [][\A old \in targets : \A new \in targets' :
       old.part_number = new.part_number => new.created_at = old.created_at]_vars

\* a seed run has rewritten a row that an earlier process created
C6_SeedRewroteRow ==
  /\ prog = "seed" /\ pc = "loop" /\ idx > 1
  /\ \E r \in targets :
       /\ r.part_number = parsedTargets[idx - 1].part_number
       /\ r.created_at < run.srcAt[1]
       /\ r.updated_at > run.srcAt[1]

\* C7: each successful upsertTarget on an existing part_number leaves
\* updated_at strictly greater than the value it had before that write,
\* whether or not any field value changed.
C7_UpdatedAtIncreases ==
  [][UpdateResolves =>
       LET pn == parsedTargets[idx].part_number
       IN RowOf(targets', pn).updated_at > RowOf(targets, pn).updated_at]_vars

\* a run has rewritten a row with the field values it already had
C7_RewrittenUnchanged ==
  /\ prog \in Ingests /\ result # Null
  /\ ~result[1].threw /\ ~result[1].is_insert
  /\ \E old \in prev.after : \E new \in targets :
       /\ new.id = result[1].id
       /\ new = [old EXCEPT !.updated_at = new.updated_at, !.xmax = new.xmax]
       /\ new.updated_at > old.updated_at

\* the source URL script p attributes its targets to
UrlOf(p) == IF p = "ingest" THEN SOURCE_URL ELSE SOURCE_URL_tables

\* C8: after any number of ingestion runs against the same (vendor, URL)
\* there is exactly one sources row for that pair, every run returns the id
\* of that row, and each run refreshes the row's last_fetched_at to the time
\* of the run.
C8_SourceReattributed ==
  /\ [](\A r1, r2 \in sources :
          (r1.vendor = r2.vendor /\ r1.source_url = r2.source_url) => r1 = r2)
  /\ []((prog \in Ingests /\ sourceId # Null) =>
          \E r \in sources :
            /\ r.vendor = VENDOR /\ r.source_url = UrlOf(prog)
            /\ r.id = sourceId[1]
            /\ <<r.last_fetched_at>> = run.srcAt)
  /\ [][(prog \in Ingests /\ pc = "source" /\ sourceId' # Null) =>
          \A r \in sources :
            (r.vendor = VENDOR /\ r.source_url = UrlOf(prog)) =>
              /\ sourceId'[1] = r.id
              /\ \E r2 \in sources' :
                   /\ r2.id = r.id /\ r2.created_at = r.created_at
                   /\ r2.last_fetched_at > r.last_fetched_at]_vars

\* a second run against the same (vendor, URL) has refreshed the sources row
\* the first run created
C8_SecondRunSameSource ==
  /\ prog \in Ingests /\ prev.prog = prog /\ prev.srcAt # Null
  /\ sourceId # Null
  /\ \E r \in sources :
       /\ r.id = sourceId[1]
       /\ <<r.created_at>> = prev.srcAt
       /\ r.last_fetched_at > r.created_at

\* C9: within one ingestion run upsertSource is executed exactly once and
\* completes before the first upsertTarget begins, and every target written
\* in that run carries the Source id returned by that call.
C9_SourceBeforeTargets ==
  prog \in Ingests =>
    /\ run.srcCalls <= 1
    /\ (Len(run.attempted) > 0 \/ report # Null) =>
         /\ run.srcCalls = 1 /\ sourceId # Null /\ run.srcAt # Null
    /\ run.srcAt # Null =>
         \A r \in targets :
           r.updated_at > run.srcAt[1] => r.source_id = sourceId[1]

\* a run has re-attributed to its own Source a row another Source had written
C9_RowReattributed ==
  /\ prog \in Ingests /\ report # Null
  /\ \E old \in prev.after : \E new \in targets :
       /\ old.id = new.id
       /\ old.source_id # new.source_id
       /\ new.source_id = sourceId[1]

\* C10: if upsertTarget fails for one record the run is not aborted, every
\* later record is still attempted, and at the end of the run a failure
\* count is reported such that inserted + updated + failed equals the number
\* of records attempted and failed equals the number of upserts that threw.
C10_FailuresCounted ==
  (prog \in Ingests /\ run.threw > 0) =>
    /\ exitCode # <<1>> \/ report # Null
    /\ report # Null =>
         /\ Len(run.attempted) = Len(parsedTargets)
         /\ report[1].errors # Null
         /\ report[1].errors = <<run.threw>>
         /\ report[1].inserted[1] + report[1].updated[1] + report[1].errors[1]
              = Len(run.attempted)

\* C10 for the description script alone, whose catch block counts
C10_FailuresCountedDescriptionScript ==
  (prog = "ingest" /\ run.threw > 0) =>
    /\ exitCode # <<1>> \/ report # Null
    /\ report # Null =>
         /\ Len(run.attempted) = Len(parsedTargets)
         /\ report[1].errors = <<run.threw>>
         /\ report[1].inserted[1] + report[1].updated[1] + report[1].errors[1]
              = Len(run.attempted)

C10_FailureThenSuccess ==
  /\ prog = "ingest" /\ report # Null
  /\ run.threw = 1 /\ report[1].inserted = <<1>>

\* C11: when every extraction strategy yields zero candidates, the run
\* aborts with a failure indication and performs no write to the store:
\* the sources row is neither created nor touched and no targets row is
\* inserted or updated.
C11_NoCandidatesNoWrite ==
  /\ [][(pc = "parse" /\ run'.candidates = <<>>) =>
          /\ pc' = "ended" /\ exitCode' = <<1>>
          /\ sources' = sources /\ targets' = targets]_vars
  /\ []((prog \in Ingests /\ html # Null /\ pc # "parse"
           /\ run.candidates = <<>>) =>
          /\ pc = "ended" /\ exitCode = <<1>>
          /\ run.srcCalls = 0
          /\ targets = run.before)

\* a run on a page without candidates has ended, the store holding the rows
\* and the source of an earlier run
C11_AbortedOnEmptyPage ==
  /\ prog \in Ingests /\ html # Null
  /\ pc = "ended" /\ exitCode = <<1>>
  /\ run.candidates = <<>>
  /\ targets # {} /\ sources # {}

\* the part number and the product fields of every row of a table: the row
\* id and the timestamps are left out
Product(tbl) ==
  {[part_number |-> r.part_number, source_id |-> r.source_id,
    target_type |-> r.target_type, material |-> r.material,
    purity |-> r.purity, diameter_mm |-> r.diameter_mm,
    outer_diameter_mm |-> r.outer_diameter_mm,
    inner_diameter_mm |-> r.inner_diameter_mm,
    thickness_mm |-> r.thickness_mm, backing_plate |-> r.backing_plate,
    alloy_ratio |-> r.alloy_ratio, notes |-> r.notes,
    raw_excerpt |-> r.raw_excerpt, price_usd |-> r.price_usd,
    price_notes |-> r.price_notes] : r \in tbl}

\* the part numbers of a list of records
PartNumbers(list) == {list[k].part_number : k \in DOMAIN list}

\* the last record of the list that carries part number pn
LastOf(list, pn) ==
  list[CHOOSE k \in DOMAIN list :
         /\ list[k].part_number = pn
         /\ \A j \in DOMAIN list : list[j].part_number = pn => j <= k]

\* the store one complete run writing `list` for Source sid leaves when it
\* starts from the store `before`: the rows of other part numbers as they
\* were, and for each part number of the list the values of its last record
StoreAfter(before, list, sid) ==
  {r \in Product(before) : r.part_number \notin PartNumbers(list)}
  \cup
  {LET v == Columns(UpsertValues(LastOf(list, pn), sid))
   IN [part_number |-> pn, source_id |-> sid,
       target_type |-> v.target_type, material |-> v.material,
       purity |-> v.purity, diameter_mm |-> v.diameter_mm,
       outer_diameter_mm |-> v.outer_diameter_mm,
       inner_diameter_mm |-> v.inner_diameter_mm,
       thickness_mm |-> v.thickness_mm, backing_plate |-> v.backing_plate,
       alloy_ratio |-> v.alloy_ratio, notes |-> v.notes,
       raw_excerpt |-> v.raw_excerpt, price_usd |-> Null,
       price_notes |-> Null] : pn \in PartNumbers(list)}

\* the current run has completed with no upsert failing
CompleteRun == prog \in Ingests /\ report # Null /\ run.threw = 0

\* the current run repeats, on the same content, a run that was interrupted
\* in its loop
ResumedRun ==
  /\ prev.prog = prog /\ prev.html = html
  /\ prev.interrupted /\ prev.threw = 0

\* C12: if an ingestion run is interrupted after any prefix of its target
\* upserts has been committed and the pipeline is then re-run to completion
\* on the same content, the final store (the part numbers and the product
\* field values of each) equals the store a single uninterrupted run on that
\* content produces.
C12_Resumable ==
  /\ CompleteRun =>
       Product(targets) = StoreAfter(run.before, parsedTargets, sourceId[1])
  /\ (CompleteRun /\ ResumedRun) =>
       Product(targets) = StoreAfter(prev.before, parsedTargets, sourceId[1])

\* a run has completed after an earlier run on the same page was interrupted
\* with one of its two upserts committed
C12_ResumedAfterFirstUpsert ==
  /\ CompleteRun /\ ResumedRun
  /\ Len(prev.attempted) = 1 /\ Len(parsedTargets) = 2
  /\ Cardinality(targets) = 2

\* C13: across any sequence of ingestion runs the set of part numbers in
\* the targets store never shrinks, and a target whose part number is absent
\* from a later run keeps all its field values, updated_at included,
\* unchanged by that run.
C13_NoDeletion ==
  /\ [][{r.part_number : r \in targets}
          \subseteq {r.part_number : r \in targets'}]_vars
  /\ [](prog \in Ingests =>
          \A r \in run.before :
            r.part_number \notin PartNumbers(parsedTargets) => r \in targets)

\* a run has completed its writes on a page that lacks a part number the
\* store held when the run began
C13_AbsentPartKept ==
  /\ prog \in Ingests /\ report # Null
  /\ inserted + updated > 0
  /\ \E r \in run.before :
       r.part_number \notin PartNumbers(parsedTargets) /\ r \in targets

\* the records of the parsed list the loop has passed to upsertTarget
Written == {parsedTargets[k] : k \in {j \in DOMAIN parsedTargets : j < idx}}

\* the shape rule for one record
ShapeRule(t) ==
  /\ t.target_type = <<"annular">> <=>
       /\ t.outer_diameter_mm # Null /\ t.inner_diameter_mm # Null
       /\ t.diameter_mm = Null
  /\ t.target_type = <<"disc">> =>
       t.outer_diameter_mm = Null /\ t.inner_diameter_mm = Null

\* C14: for every record produced by the extraction code and written by
\* upsertTarget, target type is annular if and only if both outer and inner
\* diameter are present and single diameter is absent; target type disc
\* implies outer and inner diameter are absent.
C14_ShapeInvariant ==
  prog \in Ingests => \A t \in Written : ShapeRule(t)

\* C14 for the description script alone, whose parseDescription sets type
\* and diameters together
C14_ShapeInvariantDescriptionScript ==
  prog = "ingest" => \A t \in Written : ShapeRule(t)

\* one record has its single diameter or its outer/inner pair, not both,
\* and a disc has its diameter (the code knows no shape but disc and annular)
DimensionRule(t) ==
  LET single == t.diameter_mm # Null
      pair == t.outer_diameter_mm # Null /\ t.inner_diameter_mm # Null
      other == t.target_type \notin {<<"disc">>, <<"annular">>}
  IN /\ ~(single /\ (t.outer_diameter_mm # Null \/ t.inner_diameter_mm # Null))
     /\ single \/ pair \/ other
     /\ t.target_type = <<"disc">> => single

\* C15: for every record produced by any extraction strategy, exactly one of
\* {diameter} or {outer diameter, inner diameter} is populated, never both,
\* and never neither unless the shape is Other; a record classified as disc
\* always has a diameter.
C15_OneDimensionSet ==
  (prog \in Ingests /\ pc # "parse") =>
    \A k \in DOMAIN run.candidates : DimensionRule(run.candidates[k])

\* C15 restricted to the records of disc tables, whose diameter is the
\* numeral of the heading
C15_DiscTableRecords ==
  (prog = "ingest_tables" /\ pc # "parse") =>
    \A k \in DOMAIN run.candidates :
      (run.candidates[k].target_type = <<"disc">>
         /\ run.candidates[k].material # <<"Unknown">>) =>
        DimensionRule(run.candidates[k])

\* C16: every thickness_mm value written to the store by upsertTarget is
\* either null or > 0, for any input text.
C16_ThicknessPositive ==
  \A r \in targets : r.thickness_mm = Null \/ r.thickness_mm[1] > 0

\* the part of C16 that `target.thickness_mm || null` secures: a record
\* whose parsed thickness is 0 leaves a row without a thickness
C16_ParsedZeroStoredNull ==
  \A t \in Written : \A r \in targets :
    (/\ t.thickness_mm = <<0>>
     /\ r.part_number = t.part_number /\ r.raw_excerpt = t.raw_excerpt)
    => r.thickness_mm = Null


\* the records of the current run that are or will be passed to upsertTarget
Passed == {parsedTargets[k] : k \in DOMAIN parsedTargets}

\* the product numbers of the page entries of the description script that
\* carry a material
EntriesWithMaterial(page) ==
  {e.part_number : e \in {x \in {page.text[k] : k \in DOMAIN page.text}
                                 \cup {page.rows[k] : k \in DOMAIN page.rows} :
                            Truthy(x.desc.beforeTarget)}}

\* the rows of a table that the table script reads as a product with a part
\* number and a material: no <th>, at least 3 cells under a diameter heading
\* or at least 4 cells in an annular table
UsableRows(table) ==
  {row \in {table.rows[k] : k \in DOMAIN table.rows} :
     /\ ~row.th
     /\ \/ table.heading # Null /\ Len(row.cells) >= 3
        \/ table.annular /\ Len(row.cells) >= 4
     /\ row.cells[1].text # "" /\ row.cells[2].text # ""}

\* the part numbers of those rows over the tables of a page
RowsWithMaterial(page) ==
  {row.cells[1].text :
     row \in UNION {UsableRows(page.tables[i]) : i \in DOMAIN page.tables}}

MaterialsOf(entries, pn) ==
  {entries[k].desc.beforeTarget :
     k \in {j \in DOMAIN entries : entries[j].part_number = pn}}
  \ {Null}

\* the product numbers that both the page text and the DOM rows of a page
\* give, with a material in each and no material in common
ExtractedTwice(page) ==
  {pn \in {page.text[k].part_number : k \in DOMAIN page.text} :
     /\ MaterialsOf(page.text, pn) # {}
     /\ MaterialsOf(page.rows, pn) # {}
     /\ MaterialsOf(page.text, pn) \cap MaterialsOf(page.rows, pn) = {}}

\* C18: when the same part number is extracted by the free-text scan and by
\* the DOM scan with differing materials, the record kept, and the row it
\* leaves in the store, is the free-text one.  (The table strategy shares no
\* run with the other two, and the fallback of the table script runs only
\* when the tables gave nothing: no other pair of strategies meets.)
C18_StrategyPrecedence ==
  (pc # "parse" /\ prog = "ingest") =>
    \A pn \in ExtractedTwice(html[1]) :
      /\ \A t \in Passed :
           t.part_number = pn => t.material \in MaterialsOf(html[1].text, pn)
      /\ \A r \in targets :
           r.part_number = pn => r.material \in MaterialsOf(html[1].text, pn)

\* a run of the description script has completed on a page whose text and
\* whose DOM rows give the same product number with differing materials,
\* and the row of that product carries the material of the text
C18_TextOverRows ==
  /\ prog = "ingest" /\ report # Null
  /\ \E pn \in ExtractedTwice(html[1]) : \E r \in targets :
       /\ r.part_number = pn
       /\ r.material \in MaterialsOf(html[1].text, pn)
       /\ r.material \notin MaterialsOf(html[1].rows, pn)


\* the first record of the list that carries part number pn
FirstOf(list, pn) ==
  list[CHOOSE k \in DOMAIN list :
         /\ list[k].part_number = pn
         /\ \A j \in DOMAIN list : list[j].part_number = pn => k <= j]

\* C19: among the candidates of one strategy that share a part number the
\* last-produced wins: the record kept for a part number the free-text scan
\* found is the candidate that scan emitted last for it.
C19_LastProducedWins ==
  (pc # "parse" /\ prog = "ingest") =>
    \A t \in Passed :
      t.part_number \in PartNumbers(ScanText(html[1].text))
        => t = LastOf(ScanText(html[1].text), t.part_number)

\* what the description script does instead: the record kept for a part
\* number is the first candidate emitted for it
C19_FirstProducedWins ==
  (pc # "parse" /\ prog = "ingest") =>
    \A t \in Passed : t = FirstOf(run.candidates, t.part_number)


\* the part numbers of the candidates the free-text scan of a page produces
TextPartNumbers(page) ==
  {page.text[k].part_number :
     k \in {j \in DOMAIN page.text : Truthy(page.text[j].desc.beforeTarget)}}

\* the fallback of the table script is skipped when its table parsers
\* produced a candidate: every record then comes from a table row
C20_FallbackSkippedTableScript ==
  (pc # "parse" /\ prog = "ingest_tables" /\ RowsWithMaterial(html[1]) # {})
    => PartNumbers(parsedTargets) \subseteq RowsWithMaterial(html[1])

\* C20: the DOM scan is skipped entirely whenever an earlier strategy (table
\* or free-text) produced at least one candidate: no record of the result
\* then originates from the DOM scan, even for part numbers the earlier
\* strategy did not find.
C20_DomScanSkipped ==
  /\ C20_FallbackSkippedTableScript
  /\ (pc # "parse" /\ prog = "ingest" /\ TextPartNumbers(html[1]) # {})
       => PartNumbers(parsedTargets) \subseteq TextPartNumbers(html[1])


\* C21: parseDiameter, parseThickness and parsePurity are total: for every
\* input string, the empty one and "1N" and "0N" included, the call returns
\* a value or null and never throws.
C21_NormalizersTotal ==
  norm.outcome # Null => ~norm.outcome[1].threw

\* the part of C21 that holds: parseDiameter and parseThickness never throw
C21_DimensionNormalizersTotal ==
  (norm.outcome # Null /\ norm.fn # "parsePurity") => ~norm.outcome[1].threw


\* "99." followed by k - 2 nines and "%", written out for the digits a
\* shorthand can carry
Expanded(k) ==
  CASE k = 2 -> "99.%"
    [] k = 3 -> "99.9%"
    [] k = 4 -> "99.99%"
    [] k = 5 -> "99.999%"
    [] k = 6 -> "99.9999%"
    [] k = 7 -> "99.99999%"
    [] k = 8 -> "99.999999%"
    [] k = 9 -> "99.9999999%"

\* C22: parsePurity returns an explicit percentage token verbatim; otherwise
\* a "<digit>N" shorthand with digit k >= 2 expands to "99." followed by
\* k - 2 nines and "%", and a shorthand with digit k < 2 yields null.
C22_PurityNormalization ==
  (norm.fn = "parsePurity" /\ norm.outcome # Null) =>
    /\ ~norm.outcome[1].threw
    /\ norm.outcome[1].value =
         (IF norm.text.percent # Null THEN norm.text.percent
          ELSE IF norm.text.nN # Null /\ norm.text.nN[1] >= 2
               THEN <<Expanded(norm.text.nN[1])>>
          ELSE Null)

\* the part of C22 that holds: the percentage token verbatim, and the
\* expansion of a shorthand with digit k >= 2
C22_PurityNormalizationFromTwo ==
  (/\ norm.fn = "parsePurity" /\ norm.outcome # Null
   /\ norm.text.percent = Null => (norm.text.nN = Null \/ norm.text.nN[1] >= 2))
  => /\ ~norm.outcome[1].threw
     /\ norm.outcome[1].value =
          (IF norm.text.percent # Null THEN norm.text.percent
           ELSE IF norm.text.nN # Null THEN <<Expanded(norm.text.nN[1])>>
           ELSE Null)


\* C23: parseDiameter returns a value with an explicit millimeter suffix
\* unchanged; else multiplies a value with an inch marker by 25.4; else
\* returns the first bare numeral unconverted ("62" yields 62, '2"' 50.8).
C23_DiameterPrecedence ==
  (norm.fn = "parseDiameter" /\ norm.outcome # Null) =>
    norm.outcome[1].value =
      (IF norm.text.mm # Null THEN norm.text.mm
       ELSE IF norm.text.num # Null /\ norm.text \in InchMarked
            THEN <<Inches(norm.text.num[1])>>
       ELSE norm.text.num)

\* the part of C23 that holds: the millimeter suffix and the inch marker
C23_DiameterWithUnit ==
  (/\ norm.fn = "parseDiameter" /\ norm.outcome # Null
   /\ (norm.text.mm # Null \/ norm.text \in InchMarked))
  => norm.outcome[1].value =
       (IF norm.text.mm # Null THEN norm.text.mm
        ELSE <<Inches(norm.text.num[1])>>)


\* C24: parseThickness follows the precedence of parseDiameter (millimeter
\* suffix unchanged, inch marker multiplied by 25.4, bare numeral
\* unconverted) and also recognizes a micron marker and divides by 1000
\* ("150 μm" yields 0.15 mm).
C24_ThicknessPrecedence ==
  (norm.fn = "parseThickness" /\ norm.outcome # Null) =>
    norm.outcome[1].value =
      (IF norm.text.mm # Null THEN norm.text.mm
       ELSE IF norm.text.um # Null THEN <<norm.text.um[1] \div 1000>>
       ELSE IF norm.text.num # Null /\ norm.text \in InchMarked
            THEN <<Inches(norm.text.num[1])>>
       ELSE norm.text.num)

\* the part of C24 that holds: the millimeter suffix, the micron marker and
\* the bare numeral of a text without an inch marker
C24_ThicknessWithoutInches ==
  (/\ norm.fn = "parseThickness" /\ norm.outcome # Null
   /\ (norm.text.mm # Null \/ norm.text.um # Null \/ norm.text \notin InchMarked))
  => norm.outcome[1].value =
       (IF norm.text.mm # Null THEN norm.text.mm
        ELSE IF norm.text.um # Null THEN <<norm.text.um[1] \div 1000>>
        ELSE norm.text.num)


----------------------------------------------------------------------------
(* GET /api/targets: the Express handler of src/server.js and the Netlify  *)
(* function of src/unnamed/part_000, over the store the ingestion writes.  *)

\* the rows the catalog holds when it is queried: one Source and the rows
\* upsertTarget inserts for four product entries
ApiSources == upsertSource({}, 1, 1).sources

ApiRow(pn, desc, id) ==
  InsertedRow(Columns(UpsertValues(TargetOf(Entry(pn, desc)), 1)), id, id + 1)

ApiRows ==
  {ApiRow("91700", DescItoPlate, 1), ApiRow("93000", DescGoldRing, 2),
   ApiRow("91710", DescGoldDisc, 3), ApiRow("91720", DescSilverZero, 4)}

\* LOWER(value) LIKE LOWER('%needle%') over the strings of those rows and
\* the needles of the requests: the pairs <<value, needle>> where the
\* lower-cased value contains the lower-cased needle
Containing ==
  {<<"Gold", "gold">>, <<"91700", "917">>, <<"91710", "917">>,
   <<"91720", "917">>, <<"New product; Indium Tin Oxide compound", "oxide">>}

\* a LIKE over a nullable column: NULL LIKE ... is not true
Like(value, needle) == value # Null /\ <<value[1], needle>> \in Containing

\* the collating order of the strings the rows hold
StringOrder ==
  <<"91700", "91710", "91720", "93000", "Gold", "ITO", "Silver">>

Rank(str) == CHOOSE k \in DOMAIN StringOrder : StringOrder[k] = str


\* the filters in the order the handlers test them
FilterNames ==
  <<"material", "diameter", "diameter_min", "diameter_max", "thickness",
    "thickness_min", "thickness_max", "type", "search">>

\* a request: each query parameter is <<>> when absent.  The numeric ones
\* are given by what parseFloat / parseInt reads from their text.
Request(material, diameter, diameter_min, diameter_max, thickness, thickness_min, thickness_max, type, search, sort, order, limit, offset) ==
  [material |-> material, diameter |-> diameter, diameter_min |-> diameter_min,
   diameter_max |-> diameter_max, thickness |-> thickness,
   thickness_min |-> thickness_min, thickness_max |-> thickness_max,
   type |-> type, search |-> search, sort |-> sort, order |-> order,
   limit |-> limit, offset |-> offset]

\* every combination of present and absent filters, one value for each
\* filter, with the default sort and paging
FilterRequests ==
  {Request(m, d, dmin, dmax, t, tmin, tmax, ty, s, Null, Null, Null, Null) :
     m \in {Null, <<"gold">>}, d \in {Null, <<5700000>>},
     dmin \in {Null, <<5500000>>}, dmax \in {Null, <<6000000>>},
     t \in {Null, <<10000>>}, tmin \in {Null, <<10000>>},
     tmax \in {Null, <<320000>>}, ty \in {Null, <<"disc">>},
     s \in {Null, <<"oxide">>}}

\* every sort field and order, documented or not, over a few pagings, with
\* no filter or a search
SortRequests ==
  {Request(Null, Null, Null, Null, Null, Null, Null, Null, s, sort, order,
           paging[1], paging[2]) :
     s \in {Null, <<"917">>},
     sort \in {Null, <<"material">>, <<"diameter">>, <<"thickness">>,
               <<"part_number">>, <<"diameter_mm">>, <<"thickness_mm">>,
               <<"updated_at">>},
     order \in {Null, <<"asc">>, <<"desc">>, <<"DESC">>},
     paging \in {<<Null, Null>>, <<<<2>>, Null>>, <<<<2>>, <<1>>>>,
                 <<<<1>>, <<3>>>>}}

Requests == FilterRequests \cup SortRequests

\* the value a filter pushes onto the parameter list: the LIKE pattern
\* `%${x}%` is given by its needle x
FilterValue(req, name) == req[name][1]

\* one AND ... condition of the WHERE clause: the filter that appended it
\* and the number of the placeholder it was written with
Condition(name, ph) == [filter |-> name, ph |-> ph]

\* if (x) { query += ` AND ... $${paramIndex}`; params.push(...);
\* paramIndex++ } for each filter of `names`, in order
RECURSIVE BuildWhere(_, _, _)
BuildWhere(req, names, paramIndex) ==
  IF names = <<>>
  THEN [conditions |-> <<>>, values |-> <<>>, paramIndex |-> paramIndex]
  ELSE IF req[Head(names)] = Null
       THEN BuildWhere(req, Tail(names), paramIndex)
       ELSE LET rest == BuildWhere(req, Tail(names), paramIndex + 1)
            IN [conditions |-> <<Condition(Head(names), paramIndex)>>
                                 \o rest.conditions,
                values |-> <<FilterValue(req, Head(names))>> \o rest.values,
                paramIndex |-> rest.paramIndex]

validSortFields ==
  {"material", "diameter_mm", "thickness_mm", "part_number", "updated_at"}

\* sort = 'material' by default, and for a value that is not a valid field
sortField(req) ==
  IF req.sort # Null /\ req.sort[1] \in validSortFields THEN req.sort[1]
  ELSE "material"

\* order.toLowerCase() === 'desc' ? 'DESC' : 'ASC'
sortOrder(req) ==
  IF req.order # Null /\ req.order[1] \in {"desc", "DESC"} THEN "DESC"
  ELSE "ASC"

\* limit = 100, offset = 0 by default
LimitOf(req) == IF req.limit = Null THEN 100 ELSE req.limit[1]

OffsetOf(req) == IF req.offset = Null THEN 0 ELSE req.offset[1]

\* the data query of both handlers and its parameter list
DataQuery(req) ==
  LET w == BuildWhere(req, FilterNames, 1)
  IN [conditions |-> w.conditions,
      orderBy |-> <<sortField(req), sortOrder(req)>>,
      limitPh |-> <<w.paramIndex>>, offsetPh |-> <<w.paramIndex + 1>>,
      notes |-> TRUE,
      params |-> w.values \o <<LimitOf(req), OffsetOf(req)>>]

\* a count query that drops one parameter only: params.slice(0, -1)
CountQuery_express_sliceOne(req) ==
  LET q == DataQuery(req)
  IN [conditions |-> q.conditions, orderBy |-> Null,
      limitPh |-> Null, offsetPh |-> Null, notes |-> TRUE,
      params |-> SubSeq(q.params, 1, Len(q.params) - 1)]

\* the count query of the Express handler: the data query with its select
\* list replaced and everything from ORDER BY on removed, and
\* params.slice(0, -2)
CountQuery_express(req) ==
  LET q == DataQuery(req)
  IN [conditions |-> q.conditions, orderBy |-> Null,
      limitPh |-> Null, offsetPh |-> Null, notes |-> TRUE,
      params |-> SubSeq(q.params, 1, Len(q.params) - 2)]

\* the count query of the Netlify function, built on its own from the
\* material, type and search parameters; its search condition does not
\* read t.notes
CountQuery_netlify(req) ==
  LET w == BuildWhere(req, <<"material", "type", "search">>, 1)
  IN [conditions |-> w.conditions, orderBy |-> Null,
      limitPh |-> Null, offsetPh |-> Null, notes |-> FALSE,
      params |-> w.values]

CountQuery(handler, req) ==
  IF handler = "express" THEN CountQuery_express(req)
  ELSE CountQuery_netlify(req)


\* whether a row satisfies one condition of a query, the placeholder read
\* from the query's parameter list; a comparison with NULL is not true
Holds(row, cond, q) ==
  LET v == q.params[cond.ph]
  IN CASE cond.filter = "material" -> Like(row.material, v)
       [] cond.filter = "diameter" ->
            row.diameter_mm # Null /\ row.diameter_mm[1] = v
       [] cond.filter = "diameter_min" ->
            row.diameter_mm # Null /\ row.diameter_mm[1] >= v
       [] cond.filter = "diameter_max" ->
            row.diameter_mm # Null /\ row.diameter_mm[1] <= v
       [] cond.filter = "thickness" ->
            row.thickness_mm # Null /\ row.thickness_mm[1] = v
       [] cond.filter = "thickness_min" ->
            row.thickness_mm # Null /\ row.thickness_mm[1] >= v
       [] cond.filter = "thickness_max" ->
            row.thickness_mm # Null /\ row.thickness_mm[1] <= v
       [] cond.filter = "type" -> row.target_type = v
       [] cond.filter = "search" ->
            \/ Like(row.material, v)
            \/ Like(<<row.part_number>>, v)
            \/ q.notes /\ Like(row.notes, v)

\* FROM targets t ... WHERE 1=1 AND ...
Matching(q, tbl) ==
  {row \in tbl :
     \A k \in DOMAIN q.conditions : Holds(row, q.conditions[k], q)}

\* the value ORDER BY t.<field> compares, <<>> for NULL
SortKey(row, field) ==
  CASE field = "material" -> <<Rank(row.material[1])>>
    [] field = "part_number" -> <<Rank(row.part_number)>>
    [] field = "diameter_mm" -> row.diameter_mm
    [] field = "thickness_mm" -> row.thickness_mm
    [] field = "updated_at" -> <<row.updated_at>>

\* ORDER BY <field> <dir> NULLS LAST allows row a before row b
MayPrecede(a, b, field, dir) ==
  LET ka == SortKey(a, field)
      kb == SortKey(b, field)
  IN \/ kb = Null
     \/ /\ ka # Null
        /\ IF dir = "DESC" THEN ka[1] >= kb[1] ELSE ka[1] <= kb[1]

\* every sequence the store may return for the rows under that ORDER BY:
\* rows with equal keys come in any order
Orders(rows, field, dir) ==
  {f \in [1..Cardinality(rows) -> rows] :
     /\ \A i, j \in DOMAIN f : i # j => f[i] # f[j]
     /\ \A i, j \in DOMAIN f : i < j => MayPrecede(f[i], f[j], field, dir)}

\* LIMIT limit OFFSET offset
Page(sorted, limit, offset) ==
  SubSeq(sorted, offset + 1,
         IF offset + limit < Len(sorted) THEN offset + limit ELSE Len(sorted))

\* the select list of the data query over targets t LEFT JOIN sources s
Selected(row, src) ==
  [id |-> row.id, part_number |-> row.part_number,
   target_type |-> row.target_type, material |-> row.material,
   purity |-> row.purity, diameter_mm |-> row.diameter_mm,
   outer_diameter_mm |-> row.outer_diameter_mm,
   inner_diameter_mm |-> row.inner_diameter_mm,
   thickness_mm |-> row.thickness_mm, backing_plate |-> row.backing_plate,
   notes |-> row.notes,
   vendor |-> IF \E s \in src : s.id = row.source_id
              THEN <<(CHOOSE s \in src : s.id = row.source_id).vendor>>
              ELSE Null,
   updated_at |-> row.updated_at]

\* one GET /api/targets served by a handler: the data query, then the count
\* query, then the JSON body.  The handlers keep nothing from one request
\* to the next, so a behaviour serves one request.
GetTargets(handler, req) ==
  LET q == DataQuery(req)
      c == CountQuery(handler, req)
      limit == q.params[q.limitPh[1]]
      offset == q.params[q.offsetPh[1]]
  IN /\ api = NoRequest
     /\ \E sorted \in Orders(Matching(q, targets), q.orderBy[1], q.orderBy[2]) :
          api' = [handler |-> handler, request |-> <<req>>,
                  query |-> <<q>>, countQuery |-> <<c>>,
                  response |->
                    <<[status |-> 200,
                       data |-> [k \in DOMAIN Page(sorted, limit, offset) |->
                                   Selected(Page(sorted, limit, offset)[k],
                                            sources)],
                       total |-> Cardinality(Matching(c, targets)),
                       limit |-> LimitOf(req), offset |-> OffsetOf(req)]>>]
     /\ UNCHANGED <<ingestVars, norm, ui>>

GetTargetsExpress == \E req \in Requests : GetTargets("express", req)

GetTargetsNetlify == \E req \in Requests : GetTargets("netlify", req)

\* the catalog holds any of the rows when the requests arrive
InitApi ==
  /\ sources = ApiSources /\ targets \in SUBSET ApiRows
  /\ sources_id_seq = 1 /\ targets_id_seq = 4
  /\ now = 6
  /\ pc = "idle" /\ prog = "none" /\ html = Null
  /\ parsedTargets = <<>> /\ idx = 0
  /\ client = "none" /\ poolEnded = FALSE
  /\ sourceId = Null
  /\ inserted = 0 /\ updated = 0 /\ errors = 0
  /\ result = Null /\ report = Null /\ exitCode = Null
  /\ started = 0 /\ faults = 0
  /\ run = NoRun /\ prev = NoRun
  /\ norm = NoCall
  /\ api = NoRequest
  /\ ui = NoPage

NextApi == GetTargetsExpress \/ GetTargetsNetlify

SpecApi == InitApi /\ [][NextApi]_vars

\* the rows of a table that satisfy every filter present in a request
Satisfying(req, tbl) ==
  {row \in tbl :
     /\ req.material # Null => Like(row.material, req.material[1])
     /\ req.diameter # Null =>
          (row.diameter_mm # Null /\ row.diameter_mm[1] = req.diameter[1])
     /\ req.diameter_min # Null =>
          (row.diameter_mm # Null /\ row.diameter_mm[1] >= req.diameter_min[1])
     /\ req.diameter_max # Null =>
          (row.diameter_mm # Null /\ row.diameter_mm[1] <= req.diameter_max[1])
     /\ req.thickness # Null =>
          (row.thickness_mm # Null /\ row.thickness_mm[1] = req.thickness[1])
     /\ req.thickness_min # Null =>
          (row.thickness_mm # Null
           /\ row.thickness_mm[1] >= req.thickness_min[1])
     /\ req.thickness_max # Null =>
          (row.thickness_mm # Null
           /\ row.thickness_mm[1] <= req.thickness_max[1])
     /\ req.type # Null => row.target_type = req.type[1]
     /\ req.search # Null =>
          \/ Like(row.material, req.search[1])
          \/ Like(<<row.part_number>>, req.search[1])
          \/ Like(row.notes, req.search[1])}

\* the field a documented value of `sort` names
Documented(sort) ==
  CASE sort = "material" -> "material"
    [] sort = "diameter" -> "diameter_mm"
    [] sort = "thickness" -> "thickness_mm"
    [] sort = "part_number" -> "part_number"

\* the rows of a response are in the order of `field`, NULLs last
OrderedBy(data, field, dir) ==
  \A i, j \in DOMAIN data : i < j => MayPrecede(data[i], data[j], field, dir)

\* C25: for each documented value of `sort` (material, diameter, thickness,
\* part_number) the rows of the response are ordered by that field, in the
\* requested order, in the Express handler and in the Netlify function.
C25_DocumentedSortFields ==
  (/\ api.response # Null /\ api.request[1].sort # Null
   /\ api.request[1].sort[1] \in {"material", "diameter", "thickness",
                                  "part_number"})
  => OrderedBy(api.response[1].data, Documented(api.request[1].sort[1]),
               sortOrder(api.request[1]))

\* the part of C25 that holds: sort = material and sort = part_number
C25_MaterialAndPartNumber ==
  (/\ api.response # Null /\ api.request[1].sort # Null
   /\ api.request[1].sort[1] \in {"material", "part_number"})
  => OrderedBy(api.response[1].data, api.request[1].sort[1],
               sortOrder(api.request[1]))


\* C27: pagination.total equals the number of targets rows that satisfy
\* every filter of the request (material, diameter, diameter_min/max,
\* thickness, thickness_min/max, type, search), whatever limit and offset
\* are; so both handlers return the same total for the same request.
C27_TotalCountsFilteredRows ==
  api.response # Null =>
    api.response[1].total = Cardinality(Satisfying(api.request[1], targets))

\* the part of C27 that holds: the total of the Express handler
C27_TotalOfExpress ==
  (api.response # Null /\ api.handler = "express") =>
    api.response[1].total = Cardinality(Satisfying(api.request[1], targets))


\* the conditions of a statement carry the placeholders $1, $2, ... in the
\* order they were appended, and each placeholder is bound to the value of
\* the filter that introduced it
ConditionsBound(q, req) ==
  \A k \in DOMAIN q.conditions :
    /\ q.conditions[k].ph = k
    /\ q.conditions[k].ph \in DOMAIN q.params
    /\ q.params[q.conditions[k].ph] = FilterValue(req, q.conditions[k].filter)

\* C29: for every combination of present and absent filters the data query
\* uses the placeholders $1..$n, numbered consecutively, n being the number
\* of bound values; the k-th placeholder is bound to the value of the filter
\* that introduced it; LIMIT and OFFSET are bound to the last two values;
\* and the count query and its parameter list are numbered and bound
\* likewise.
C29_PlaceholdersBound ==
  api.response # Null =>
    LET q == api.query[1]
        c == api.countQuery[1]
        req == api.request[1]
        n == Len(q.params)
    IN /\ ConditionsBound(q, req)
       /\ n = Len(q.conditions) + 2
       /\ q.limitPh = <<n - 1>> /\ q.offsetPh = <<n>>
       /\ q.params[n - 1] = LimitOf(req) /\ q.params[n] = OffsetOf(req)
       /\ ConditionsBound(c, req)
       /\ Len(c.params) = Len(c.conditions)

\* a request with a numeric filter, the type and a search has been served
\* by the Express handler: three placeholders in the WHERE clause, five
\* values bound
C29_ThreeFiltersServed ==
  /\ api.handler = "express" /\ api.response # Null
  /\ api.request[1].diameter_min # Null /\ api.request[1].type # Null
  /\ api.request[1].search # Null /\ api.request[1].material = Null
  /\ Len(api.query[1].conditions) = 3 /\ Len(api.query[1].params) = 5
  /\ Len(api.countQuery[1].params) = 3


\* ---------------------------------------------------------------------
\* The row filter of the structured-table strategy
\* ---------------------------------------------------------------------

\* <tr><td>91700</td><td>Gold</td><td>1N</td><td>0.1mm</td></tr>
RowGold1N ==
  Row(FALSE, <<Cell91700, CellGold, Cell1N, CellTenthMm>>,
      "91700 Gold 1N 0.1mm", <<"91700">>)

\* <tr><td>93000</td><td>Gold</td><td>4N</td><td>0.1mm</td></tr>
RowGold4N ==
  Row(FALSE, <<Cell93000, CellGold, Cell4N, CellTenthMm>>,
      "93000 Gold 4N 0.1mm", <<"93000">>)

\* <tr><td></td><td>Gold</td><td>99.99%</td><td>0.1mm</td></tr>
RowNoPartNumber ==
  Row(FALSE, <<NoCell, CellGold, CellPercent, CellTenthMm>>,
      "Gold 99.99% 0.1mm", Null)

\* the rows of the table-run specification: those of the single-run
\* specification, and rows with a purity shorthand or without a part number
ShorthandRows == Rows \cup {RowGold1N, RowGold4N, RowNoPartNumber}

\* every page of one table of at most MaxEntries of those rows
ShorthandTablePages ==
  {TablePage(<<Table(h, a, r)>>, <<>>) :
     h \in {Null, <<6000000>>}, a \in BOOLEAN,
     r \in SeqsUpTo(ShorthandRows, MaxEntries)}

\* one run of the table script over one such page, on an empty database
InitTableRun ==
  /\ sources = {} /\ targets = {}
  /\ sources_id_seq = 0 /\ targets_id_seq = 0
  /\ now = 1
  /\ prog = "ingest_tables"
  /\ \E page \in ShorthandTablePages :
       /\ html = <<page>>
       /\ run = [NoRun EXCEPT !.prog = prog, !.html = <<page>>,
                              !.emptyStart = TRUE]
  /\ pc = "parse"
  /\ parsedTargets = <<>> /\ idx = 0
  /\ client = "none" /\ poolEnded = FALSE
  /\ sourceId = Null
  /\ inserted = 0 /\ updated = 0 /\ errors = 0
  /\ result = Null /\ report = Null /\ exitCode = Null
  /\ started = 1 /\ faults = 0
  /\ prev = NoRun
  /\ norm = NoCall
  /\ api = NoRequest
  /\ ui = NoPage

\* the steps of the table script, which has no statistics query
NextTableRun ==
  \/ ParseStep
  \/ Connect
  \/ UpsertSourceStep
  \/ UpsertTargetStep
  \/ ReportStep
  \/ Finally

SpecTableRun == InitTableRun /\ [][NextTableRun]_vars

\* the row passes the filter of a table parser that asks for minCells cells
PassesRowFilter(row, minCells) ==
  /\ ~row.th
  /\ Len(row.cells) >= minCells
  /\ row.cells[1].text # "" /\ row.cells[2].text # ""

\* the (row position, type) pairs of a table that should yield a candidate
ExpectedOfTable(table) ==
  {<<k, "disc">> : k \in {j \in DOMAIN table.rows :
      table.heading # Null /\ PassesRowFilter(table.rows[j], 3)}}
  \cup
  {<<k, "annular">> : k \in {j \in DOMAIN table.rows :
      table.annular /\ PassesRowFilter(table.rows[j], 4)}}

\* the candidates of the structured-table strategy among the parsed ones
\* (the DOM fallback gives every candidate the material 'Unknown')
TableCandidates ==
  {k \in DOMAIN parsedTargets : parsedTargets[k].material # <<"Unknown">>}

\* the row's purity cell makes parsePurity throw in parseDiscTargets
PurityThrows(table) ==
  /\ table.heading # Null
  /\ \E k \in DOMAIN table.rows :
       /\ ~table.rows[k].th /\ Len(table.rows[k].cells) >= 3
       /\ parsePurity(table.rows[k].cells[3]).threw

\* C26: once the page is parsed, the structured-table strategy has yielded
\* one candidate for exactly the rows that hold no header cell, have at
\* least 3 cells (disc table) or 4 cells (annular table) and have a part
\* number and a material, whatever the other rows of the table are.
C26_RowFilter ==
  (pc # "parse") =>
    LET table == html[1].tables[1]
    IN /\ Cardinality(TableCandidates) = Cardinality(ExpectedOfTable(table))
       /\ \A e \in ExpectedOfTable(table) :
            \E k \in TableCandidates :
              /\ parsedTargets[k].part_number = table.rows[e[1]].cells[1].text
              /\ parsedTargets[k].target_type = <<e[2]>>

\* the same read with "not lacking both": a row that has a part number or
\* a material yields a candidate
C26_EitherSuffices ==
  (pc # "parse") =>
    LET table == html[1].tables[1]
    IN \A k \in DOMAIN table.rows :
         (/\ table.annular /\ ~table.rows[k].th
          /\ Len(table.rows[k].cells) >= 4
          /\ (table.rows[k].cells[1].text # ""
              \/ table.rows[k].cells[2].text # ""))
         => \E c \in TableCandidates :
              parsedTargets[c].raw_excerpt = <<table.rows[k].text>>

\* what the code does: the filter decides row by row as long as no purity
\* cell of a disc table makes parsePurity throw
C26_RowFilterUnlessPurityThrows ==
  (pc # "parse" /\ ~PurityThrows(html[1].tables[1])) =>
    LET table == html[1].tables[1]
    IN /\ Cardinality(TableCandidates) = Cardinality(ExpectedOfTable(table))
       /\ \A e \in ExpectedOfTable(table) :
            \E k \in TableCandidates :
              /\ parsedTargets[k].part_number = table.rows[e[1]].cells[1].text
              /\ parsedTargets[k].target_type = <<e[2]>>

\* a disc table with a passing row and a row of purity '1N' has been parsed
C26_ThrowingRowParsed ==
  /\ pc # "parse"
  /\ PurityThrows(html[1].tables[1])
  /\ ExpectedOfTable(html[1].tables[1]) # {}


\* ---------------------------------------------------------------------
\* The catalog page: loadTargets and the event listeners
\* ---------------------------------------------------------------------

PAGE_SIZE == 24

\* the number of requests a page issues in a behaviour
MaxRequests == 4

\* values of the material dropdown and of the search box
MaterialChoices == {"", "Gold"}

SearchChoices == {"", "ITO"}

SortChoices == {"material", "part_number"}

\* pagination.total of the catalog the page talks to, by filters: 60 targets,
\* 30 of them gold, none matching 'ITO'
TotalFor(filters) ==
  IF filters.search # "" THEN 0
  ELSE IF filters.material = "Gold" THEN 30
  ELSE 60

Min(a, b) == IF a <= b THEN a ELSE b

\* the cards of one response: the slice of params.limit targets at
\* params.offset of the filtered and sorted catalog
Cards(params) ==
  [kind |-> "cards", filters |-> params.filters, sort |-> params.sort,
   offset |-> params.offset,
   length |-> IF params.offset >= TotalFor(params.filters) THEN 0
              ELSE Min(params.limit, TotalFor(params.filters) - params.offset)]

\* what the grid holds instead of cards: the loading spinner, the empty
\* state, the error state
Placeholder(kind) ==
  [kind |-> kind, filters |-> [material |-> "", search |-> ""], sort |-> "",
   offset |-> 0, length |-> 0]

\* loadTargets(append) up to its await: the new value of ui, given the value
\* u the calling listener has left
loadTargets(u, append) ==
  LET offset == IF append THEN u.currentOffset ELSE 0
      params == [filters |-> u.currentFilters, sort |-> u.currentSort,
                 order |-> u.currentOrder, limit |-> PAGE_SIZE,
                 offset |-> offset]
  IN [u EXCEPT !.currentOffset = offset,
               !.productsGrid = IF append THEN @ ELSE <<Placeholder("spinner")>>,
               !.issued = @ + 1,
               !.inflight = @ \cup {[id |-> u.issued + 1, params |-> params,
                                     append |-> append]}]

\* init() on DOMContentLoaded: the listeners are attached and the first
\* loadTargets() is waiting for its response. Whether #pagination is shown
\* before the first response is decided by the markup of the page.
InitPage ==
  /\ sources = {} /\ targets = {}
  /\ sources_id_seq = 0 /\ targets_id_seq = 0
  /\ now = 1
  /\ prog = "none" /\ html = Null
  /\ pc = "done"
  /\ parsedTargets = <<>> /\ idx = 0
  /\ client = "none" /\ poolEnded = FALSE
  /\ sourceId = Null
  /\ inserted = 0 /\ updated = 0 /\ errors = 0
  /\ result = Null /\ report = Null /\ exitCode = Null
  /\ started = 0 /\ faults = 0
  /\ run = NoRun /\ prev = NoRun
  /\ norm = NoCall
  /\ api = NoRequest
  /\ \E shown \in BOOLEAN :
       ui = loadTargets([NoPage EXCEPT !.pagination = shown], FALSE)

\* a listener may run: the page issues at most MaxRequests requests
MayRequest == ui.issued >= 1 /\ ui.issued < MaxRequests

\* click on #apply-filters
ApplyFilters ==
  /\ MayRequest
  /\ \E m \in MaterialChoices :
       ui' = loadTargets([ui EXCEPT !.currentFilters.material = m], FALSE)
  /\ UNCHANGED <<ingestVars, norm, api>>

\* click on #clear-filters
ClearFilters ==
  /\ MayRequest
  /\ ui' = loadTargets([ui EXCEPT !.currentFilters =
                                    [material |-> "", search |-> ""]], FALSE)
  /\ UNCHANGED <<ingestVars, norm, api>>

\* click on #search-btn, or Enter in #hero-search
Search ==
  /\ MayRequest
  /\ \E s \in SearchChoices :
       ui' = loadTargets([ui EXCEPT !.currentFilters.search = s], FALSE)
  /\ UNCHANGED <<ingestVars, norm, api>>

\* change of #sort-products
SortChange ==
  /\ MayRequest
  /\ \E v \in SortChoices :
       ui' = loadTargets([ui EXCEPT !.currentSort = v], FALSE)
  /\ UNCHANGED <<ingestVars, norm, api>>

\* click on the × of a filter pill; a pill exists for a non-empty filter
removeFilter(key) ==
  /\ MayRequest
  /\ ui.currentFilters[key] # ""
  /\ ui' = loadTargets([ui EXCEPT !.currentFilters[key] = ""], FALSE)
  /\ UNCHANGED <<ingestVars, norm, api>>

RemoveFilter == \E key \in {"material", "search"} : removeFilter(key)

\* click on #load-more, which lies inside #pagination
LoadMore ==
  /\ MayRequest
  /\ ui.pagination
  /\ ui' = loadTargets([ui EXCEPT !.currentOffset = @ + PAGE_SIZE], TRUE)
  /\ UNCHANGED <<ingestVars, norm, api>>

\* the response to request r arrives: loadTargets from its await on
Response(r) ==
  LET data == Cards(r.params)
      total == TotalFor(r.params.filters)
      arrived == [ui EXCEPT !.inflight = @ \ {r},
                            !.reordered =
                              @ \/ \E o \in ui.inflight : o.id < r.id]
  IN /\ r \in ui.inflight
     /\ ui' =
          IF data.length = 0 /\ ~r.append
          THEN [arrived EXCEPT !.productsGrid = <<Placeholder("empty")>>,
                               !.resultsCount = <<[shown |-> 0, total |-> 0]>>]
          ELSE [arrived EXCEPT
                  !.productsGrid =
                    IF ~r.append THEN <<data>>
                    ELSE IF data.length = 0 THEN @
                    ELSE @ \o <<data>>,
                  !.resultsCount =
                    <<[shown |-> Min(ui.currentOffset + PAGE_SIZE, total),
                       total |-> total]>>,
                  !.pagination = (ui.currentOffset + PAGE_SIZE < total)]
     /\ UNCHANGED <<ingestVars, norm, api>>

ResponseArrives == \E r \in ui.inflight : Response(r)

\* fetch rejects or the status is not ok: the catch of loadTargets
ResponseFails ==
  /\ \E r \in ui.inflight :
       ui' = [ui EXCEPT !.inflight = @ \ {r},
                        !.failed = TRUE,
                        !.productsGrid = <<Placeholder("error")>>]
  /\ UNCHANGED <<ingestVars, norm, api>>

NextPage ==
  \/ ApplyFilters
  \/ ClearFilters
  \/ Search
  \/ SortChange
  \/ RemoveFilter
  \/ LoadMore
  \/ ResponseArrives
  \/ ResponseFails

SpecPage == InitPage /\ [][NextPage]_vars

\* what the page shows for the filters, sort and offset u holds: the cards
\* of every slice up to currentOffset, or the empty state, and the count
RECURSIVE Slices(_, _)
Slices(u, offset) ==
  LET data == Cards([filters |-> u.currentFilters, sort |-> u.currentSort,
                     order |-> u.currentOrder, limit |-> PAGE_SIZE,
                     offset |-> offset])
  IN IF offset > u.currentOffset THEN <<>>
     ELSE (IF data.length = 0 THEN <<>> ELSE <<data>>)
          \o Slices(u, offset + PAGE_SIZE)

ShownFor(u) ==
  [productsGrid |-> IF TotalFor(u.currentFilters) = 0 THEN <<Placeholder("empty")>>
                    ELSE Slices(u, 0),
   resultsCount |->
     <<[shown |-> Min(u.currentOffset + PAGE_SIZE, TotalFor(u.currentFilters)),
        total |-> TotalFor(u.currentFilters)]>>]

Shown(u) ==
  [productsGrid |-> u.productsGrid, resultsCount |-> u.resultsCount]

\* C28: once every response has arrived, none of them a failure, the
\* products grid and the results count are those of the most recently
\* issued request: the current filters, sort and offset.
C28_LatestRequestShown ==
  (ui.issued >= 1 /\ ui.inflight = {} /\ ~ui.failed) =>
    Shown(ui) = ShownFor(ui)

\* what the code does: the same, provided the responses arrived in the
\* order in which their requests were issued
C28_LatestRequestShownInOrder ==
  (ui.issued >= 1 /\ ui.inflight = {} /\ ~ui.failed /\ ~ui.reordered) =>
    Shown(ui) = ShownFor(ui)

\* two requests were in flight and the later one was answered first
C28_AnsweredOutOfOrder ==
  /\ ui.inflight = {} /\ ~ui.failed /\ ui.reordered
  /\ Shown(ui) # ShownFor(ui)


\* ---------------------------------------------------------------------
\* Release of the database client
\* ---------------------------------------------------------------------

\* C30: a process that has ended after pool.connect() gave it a client has
\* released the client and ended the pool.
C30_ClientReleased ==
  (pc = "ended" /\ client # "none") => (client = "released" /\ poolEnded)

\* what the code does: the client is released and the pool ended when the
\* process ends with code 0, that is after normal completion, with or
\* without per-record upsert failures
C30_ClientReleasedOnCompletion ==
  (pc = "ended" /\ client # "none" /\ exitCode = <<0>>) =>
    (client = "released" /\ poolEnded)

\* what the code does when upsertSource or the statistics query throws:
\* process.exit(1) in catch ends the process before finally runs
C30_ClientHeldOnExit1 ==
  (pc = "ended" /\ client # "none" /\ exitCode = <<1>>) =>
    (client = "held" /\ ~poolEnded)

\* a run has completed after one of its upserts failed
C30_CompletedWithFailure ==
  pc = "ended" /\ exitCode = <<0>> /\ run.threw > 0 /\ client = "released"

====
